---- MODULE Spec2Model ----
(***************************************************************************)
(* Verification model of the secret-scanning custom-pattern automation     *)
(* tool (src/dist/secret_protection.js, with the confirmation gate of      *)
(* src/secret_protection.ts next to it).                                   *)
(*                                                                         *)
(* Three specifications share the module:                                  *)
(*   SpecGate  - confirmPatternAction applied to bounded inputs            *)
(*   SpecFill  - fillInPattern applied to a bounded pattern / remote form, *)
(*               followed by a publish and a second run on the same data   *)
(*   Spec      - uploadPatterns driving processPattern over pattern files  *)
(***************************************************************************)
EXTENDS Integers, Sequences, FiniteSets, TLC

VARIABLES
    gate,                 \* a call of the confirmation gate (SpecGate)
    fill,                 \* a call of fillInPattern and its second run (SpecFill)
    config,               \* the run configuration built by parseArgs
    remote,               \* the custom patterns held by the remote, by name
    existingPatterns,     \* the name -> location map of uploadPatterns
    unprocessedPatterns,  \* the [file, name, message] entries, in order of uploadPatterns
    run,                  \* where uploadPatterns stands
    cur,                  \* the pattern in processPattern and what was done for it
    tally,                \* counts kept over the run
    del,                  \* where deleteExistingPatterns stands and what it did
    dry,                  \* the repository selection of a dry run (SpecDryRun)
    proc,                 \* the process: login, browser, exit of main
    call                  \* the one function under way, in the specifications
                          \* of single functions: its inputs, position, result

vars ==
    <<gate, fill, config, remote, existingPatterns, unprocessedPatterns, run, cur,
      tally, del, dry, proc, call>>

(***************************************************************************)
(* Strings.  A string is a sequence of one-character strings; " " is the   *)
(* whitespace character.  JavaScript's undefined and null are two values   *)
(* that are no strings.                                                    *)
(***************************************************************************)
Undefined == <<"undefined">>
Null == <<"null">>
\* an undefined list of strings
UndefinedList == <<Undefined>>
Space == " "
EmptyStr == <<>>

IsNullish(s) == s = Undefined \/ s = Null

\* JavaScript truthiness of an optional string
Truthy(s) == ~IsNullish(s) /\ s # EmptyStr

RECURSIVE TrimStart(_)
TrimStart(s) ==
    IF s = <<>> THEN <<>>
    ELSE IF Head(s) = Space THEN TrimStart(Tail(s)) ELSE s

RECURSIVE TrimEnd(_)
TrimEnd(s) ==
    IF s = <<>> THEN <<>>
    ELSE IF s[Len(s)] = Space THEN TrimEnd(SubSeq(s, 1, Len(s) - 1)) ELSE s

\* String.prototype.trim
Trim(s) == TrimEnd(TrimStart(s))

\* the anchors processPattern fills in when the catalog gives none
DefaultStart == <<"S">>
DefaultEnd == <<"E">>

comparePatternsNoTrim(patternA, patternB) ==
    IF IsNullish(patternA) \/ IsNullish(patternB) THEN FALSE
    ELSE patternA = patternB

comparePatterns(patternA, patternB) ==
    IF IsNullish(patternA) \/ IsNullish(patternB) THEN FALSE
    ELSE Trim(patternA) = Trim(patternB)

(***************************************************************************)
(* Patterns of a catalog and the remote pattern form.                      *)
(***************************************************************************)
MaxRules == 2

RuleValues == {<<"a">>, <<"b">>}
RuleKinds == {"must_match", "must_not_match"}

\* all sequences over S of length at most n
SeqUpTo(S, n) == UNION {[1..k -> S] : k \in 0..n}

\* the regex part of a catalog pattern, as loaded from the pattern file
RegexDomain ==
    {[pattern |-> <<Space, "a">>, start |-> st, end |-> Undefined,
      additional_match |-> am, additional_not_match |-> anm] :
        st \in {Undefined, <<"a">>},
        am \in SeqUpTo(RuleValues, MaxRules) \cup {UndefinedList},
        anm \in {UndefinedList, <<<<"a">>>>}}

\* a rule row of the remote form
RuleRow == [type : RuleKinds, value : RuleValues]

\* the form of an existing remote pattern, read through the page
RemoteFormDomain ==
    [display_name : {<<"n">>},
     secret_format : {<<"a", Space>>, <<"b">>},
     before_secret : {DefaultStart, <<"a">>, EmptyStr},
     after_secret : {DefaultEnd, <<"b">>},
     rules : SeqUpTo(RuleRow, MaxRules)]

\* the form of the new-pattern page
NewForm ==
    [display_name |-> EmptyStr, secret_format |-> EmptyStr,
     before_secret |-> EmptyStr, after_secret |-> EmptyStr, rules |-> <<>>]

\* processPattern: "fill in some defaults if parts are missing"
ApplyDefaults(regex) ==
    [regex EXCEPT
        !.start = IF regex.start = Undefined THEN DefaultStart ELSE regex.start,
        !.end = IF regex.end = Undefined THEN DefaultEnd ELSE regex.end]

\* fillInPattern: pattern.regex.additional_match = [] when undefined
ListOrEmpty(l) == IF l = UndefinedList THEN <<>> ELSE l

\* a[i] of a JavaScript array: undefined past the end
ElementAt(l, i) == IF i <= Len(l) THEN l[i] ELSE Undefined

RulesOfType(rules, type) ==
    LET IsType(r) == r.type = type IN SelectSeq(rules, IsType)

\* the remote operations that change the form
OpClear(field) == <<"clear", field>>
OpFill(field) == <<"fill", field>>
OpRemoveRule == <<"remove_rule", "rules">>
OpAddRule(type) == <<"add_rule", type>>

RECURSIVE Repeat(_, _)
Repeat(x, n) == IF n = 0 THEN <<>> ELSE <<x>> \o Repeat(x, n - 1)

(***************************************************************************)
(* fillInPattern(page, pattern, isExisting, config).                       *)
(*   form       the form shown by the page when the function is entered    *)
(*   name,regex the catalog pattern, defaults applied                      *)
(*   addFail    0, or the number of the addAdditionalRule call that fails  *)
(* The result gives the returned value, how the function returned, the     *)
(* remote operations issued in order, and the form left on the page.       *)
(***************************************************************************)
FillInPattern(form, name, regex, isExisting, forceSubmission, addFail) ==
    LET am == ListOrEmpty(regex.additional_match)
        anm == ListOrEmpty(regex.additional_not_match)
        \* existing pattern: compare the fields, clear those that differ
        secretFormatChanged ==
            Truthy(form.secret_format)
            /\ ~comparePatterns(form.secret_format, regex.pattern)
        beforeSecretChanged ==
            Truthy(form.before_secret)
            /\ ~comparePatterns(form.before_secret, regex.start)
        afterSecretChanged ==
            Truthy(form.after_secret)
            /\ ~comparePatterns(form.after_secret, regex.end)
        changedFields ==
            secretFormatChanged \/ beforeSecretChanged \/ afterSecretChanged
        \* existing additional rules
        existingAdditionalMatchCount == Len(form.rules)
        newAdditionalMatchCount == Len(am) + Len(anm)
        nothingToCompare ==
            existingAdditionalMatchCount = 0 /\ Len(am) = 0 /\ Len(anm) = 0
        existingMustMatches == RulesOfType(form.rules, "must_match")
        existingMustNotMatches == RulesOfType(form.rules, "must_not_match")
        mustMatchDiffers ==
            \E i \in 1..Len(existingMustMatches) :
                ~comparePatterns(existingMustMatches[i].value, ElementAt(am, i))
        mustNotMatchDiffers ==
            \E i \in 1..Len(existingMustNotMatches) :
                ~comparePatterns(existingMustNotMatches[i].value, ElementAt(anm, i))
        changedAfterMust == changedFields \/ mustMatchDiffers
        changed ==
            IF nothingToCompare THEN changedFields
            ELSE IF existingAdditionalMatchCount = newAdditionalMatchCount
                 THEN (IF changedAfterMust THEN TRUE ELSE mustNotMatchDiffers)
                 ELSE TRUE
        removeRules == ~nothingToCompare /\ (changed \/ forceSubmission)
        clearOps ==
            (IF secretFormatChanged THEN <<OpClear("secret_format")>> ELSE <<>>)
            \o (IF beforeSecretChanged THEN <<OpClear("before_secret")>> ELSE <<>>)
            \o (IF afterSecretChanged THEN <<OpClear("after_secret")>> ELSE <<>>)
            \o (IF removeRules THEN Repeat(OpRemoveRule, Len(form.rules)) ELSE <<>>)
        clearedForm ==
            [form EXCEPT
                !.secret_format = IF secretFormatChanged THEN EmptyStr ELSE @,
                !.before_secret = IF beforeSecretChanged THEN EmptyStr ELSE @,
                !.after_secret = IF afterSecretChanged THEN EmptyStr ELSE @,
                !.rules = IF removeRules THEN <<>> ELSE @]
        noChanges == isExisting /\ ~changed /\ ~forceSubmission
        \* common part: fill the form from the pattern
        startForm ==
            IF isExisting THEN clearedForm ELSE [form EXCEPT !.display_name = name]
        startOps ==
            IF isExisting THEN clearOps ELSE <<OpFill("display_name")>>
        wanted ==
            [i \in 1..Len(am) |-> [type |-> "must_match", value |-> am[i]]]
            \o [i \in 1..Len(anm) |-> [type |-> "must_not_match", value |-> anm[i]]]
        addFailed == addFail >= 1 /\ addFail <= Len(wanted)
        added == IF addFailed THEN addFail - 1 ELSE Len(wanted)
        fieldOps ==
            <<OpClear("secret_format"), OpFill("secret_format")>>
            \o (IF Truthy(regex.start)
                THEN <<OpClear("before_secret"), OpFill("before_secret")>> ELSE <<>>)
            \o (IF Truthy(regex.end)
                THEN <<OpClear("after_secret"), OpFill("after_secret")>> ELSE <<>>)
        ruleOps ==
            [i \in 1..added |-> OpAddRule(wanted[i].type)]
            \o (IF addFailed THEN <<<<"add_click", "rules">>>> ELSE <<>>)
        filledForm ==
            [startForm EXCEPT
                !.secret_format = regex.pattern,
                !.before_secret = IF Truthy(regex.start) THEN regex.start ELSE @,
                !.after_secret = IF Truthy(regex.end) THEN regex.end ELSE @,
                !.rules = @ \o SubSeq(wanted, 1, added)]
    IN  IF noChanges
        THEN [needToSubmit |-> FALSE, outcome |-> "unchanged",
              ops |-> clearOps, form |-> clearedForm]
        ELSE IF addFailed
        THEN [needToSubmit |-> FALSE, outcome |-> "add_failed",
              ops |-> startOps \o fieldOps \o ruleOps, form |-> filledForm]
        ELSE [needToSubmit |-> TRUE, outcome |-> "filled",
              ops |-> startOps \o fieldOps \o ruleOps, form |-> filledForm]

(***************************************************************************)
(* The confirmation gate.                                                  *)
(***************************************************************************)
MaxHits == 3
MaxThreshold == 3

\* what the user types at a confirm prompt: y, n, or just Enter (the default)
PromptInputs == {"y", "n", "enter"}

ConfirmPromptUnlessNo(default, input) == input # "n"

\* inquirer.prompt({type: 'confirm', default})
ConfirmPrompt(default, input) == IF input = "enter" THEN default ELSE input = "y"

\* confirmPatternAction of dist/secret_protection.js: the value returned and
\* the prompts issued, each with its default answer
confirmPatternActionGe(hits, dryRunThreshold, input) ==
    IF hits >= dryRunThreshold
    THEN [proceed |-> ConfirmPrompt(FALSE, input), prompts |-> <<[default |-> FALSE]>>]
    ELSE [proceed |-> TRUE, prompts |-> <<>>]

confirmPatternAction(hits, dryRunThreshold, input) ==
    IF hits > dryRunThreshold
    THEN [proceed |-> ConfirmPrompt(FALSE, input), prompts |-> <<[default |-> FALSE]>>]
    ELSE [proceed |-> TRUE, prompts |-> <<>>]

\* confirmPatternAction of secret_protection.ts: the threshold is also
\* tested for truthiness
confirmPatternActionTs(hits, dryRunThreshold, input) ==
    IF dryRunThreshold # 0 /\ hits > dryRunThreshold
    THEN [proceed |-> ConfirmPrompt(FALSE, input), prompts |-> <<[default |-> FALSE]>>]
    ELSE [proceed |-> TRUE, prompts |-> <<>>]

(***************************************************************************)
(* The run: configuration, pattern files, the remote and its index.        *)
(***************************************************************************)
NumFiles == 2
MaxPatterns == 2

Names == {"n1", "n2"}

\* a pattern name as the string written to the name field
NameStr(name) == <<name>>

\* an include / exclude name list of the configuration, possibly undefined
NoFilter == [defined |-> FALSE, names |-> {}]
FilterOf(names) == [defined |-> TRUE, names |-> names]

IsSelectedIgnoringExclude(cfg, name) ==
    ~(cfg.patternsToInclude.defined /\ name \notin cfg.patternsToInclude.names)

\* uploadPatterns: the name passes the include and the exclude list
IsSelected(cfg, name) ==
    /\ ~(cfg.patternsToInclude.defined /\ name \notin cfg.patternsToInclude.names)
    /\ ~(cfg.patternsToExclude.defined /\ name \in cfg.patternsToExclude.names)

\* parseArgs: the configuration of a run; at most one push-protection flag
PushModes == {"unset", "enable", "keep", "disable"}
Scopes == {"repo", "org", "enterprise"}

MakeConfig(threshold, force, mode, scope, validate, include, exclude) ==
    [dryRunThreshold |-> threshold,
     forceSubmission |-> force,
     enablePushProtection |-> (mode = "enable"),
     noChangePushProtection |-> (mode = "keep"),
     disablePushProtection |-> (mode = "disable"),
     scope |-> scope,
     validate |-> validate,
     patternsToInclude |-> include,
     patternsToExclude |-> exclude,
     validateOnly |-> FALSE,
     deleteExisting |-> FALSE]

\* a pattern of a pattern file
TestDataDomain == {Undefined, <<"a">>}
PushProtectionDomain == {"undefined", "true", "false"}

PlainRegex ==
    [pattern |-> <<Space, "a">>, start |-> Undefined, end |-> Undefined,
     additional_match |-> UndefinedList, additional_not_match |-> UndefinedList]

RuleRegex == [PlainRegex EXCEPT !.additional_match = <<<<"a">>>>]

BatchRegexes == {PlainRegex, RuleRegex}

\* the form the remote shows once a pattern with this regex is published
PublishedForm(name, regex) ==
    FillInPattern(NewForm, name, ApplyDefaults(regex), FALSE, FALSE, 0).form

\* a remote pattern: absent, or a form that is published or not
RemoteAbsent == [exists |-> FALSE, form |-> NewForm, published |-> FALSE]
RemotePattern(form, published) ==
    [exists |-> TRUE, form |-> form, published |-> published]

\* a location of the index: the href of the listing (a server-relative
\* path) or what page.url() returns (an absolute URL)
NoLocation == [kind |-> "none", id |-> "none"]
PathLocation(name) == [kind |-> "path", id |-> name]
UrlLocation(name) == [kind |-> "url", id |-> name]

\* addresses, as strings: config.server, the path of a pattern page and
\* the address of the new-pattern page
Server == <<"h">>
PathOf(name) == <<"/", name>>
PatternPageUrl(name) == Server \o PathOf(name)
NewPatternUrl == Server \o <<"/", "new">>

\* the string the index holds for a name
LocationString(location) ==
    IF location.kind = "path" THEN PathOf(location.id)
    ELSE IF location.kind = "url" THEN PatternPageUrl(location.id)
    ELSE Undefined

\* processPattern: the address handed to goto
TargetUrl(location) ==
    IF location.kind # "none" THEN Server \o LocationString(location)
    ELSE NewPatternUrl

\* the remote serves the new-pattern page and the pages of the patterns
IsPage(url) == url = NewPatternUrl \/ \E n \in Names : url = PatternPageUrl(n)

\* findExistingPatterns: one entry per pattern of the listing
IndexOf(rem) ==
    [n \in Names |-> IF rem[n].exists THEN PathLocation(n) ELSE NoLocation]

\* PatternValidator.validatePatternFile: a name, at least one pattern, no
\* name twice, every pattern structurally sound
HasDuplicates(names) ==
    \E i, j \in 1..Len(names) : i < j /\ names[i] = names[j]

ValidatePatternFileLax(file) == Len(file.names) > 0

ValidatePatternFile(file) ==
    /\ Len(file.names) > 0
    /\ ~HasDuplicates(file.names)
    /\ file.sound

\* the message of a lost session, and of the other failures of a pattern
ClosedMessage == "Target page, context or browser has been closed"
TestFailedMessage == "Pattern test failed"
NoPatternIdMessage == "Failed to retrieve pattern ID from the URL"
PushProtectionMessage == "Failed to navigate to push protection configuration page"

IsSessionLoss(message) == message = ClosedMessage

(***************************************************************************)
(* testPattern, once the polling loop has ended with the status text       *)
(* `text`: "matches" (- N matches), "no_matches", or "finding" (still      *)
(* looking when the tries ran out).                                        *)
(***************************************************************************)
TestTexts == {"matches", "no_matches", "finding"}

TestPattern(testData, text, errorExists) ==
    LET ignoreTestResult ==
            testData = Undefined \/ Trim(testData) = EmptyStr
    IN  IF text = "finding" /\ errorExists THEN FALSE
        ELSE IF ~ignoreTestResult /\ text # "matches" THEN FALSE
        ELSE TRUE

(***************************************************************************)
(* processPattern: the push-protection decision.  `input` is the answer    *)
(* typed at the prompt, if one is shown.                                   *)
(***************************************************************************)
PushProtectionDecisionAsks(cfg, pushProtection, input) ==
    LET ask == ~cfg.disablePushProtection /\ pushProtection = "undefined"
    IN  [skip |-> cfg.noChangePushProtection,
         prompt |-> ~cfg.noChangePushProtection /\ ask,
         enable |-> IF ask THEN ConfirmPrompt(FALSE, input)
                    ELSE ~cfg.disablePushProtection /\ pushProtection = "true"]

PushProtectionDecisionPatternFirst(cfg, pushProtection, input) ==
    LET fromFlags == cfg.enablePushProtection \/ pushProtection = "true"
        ask ==
            /\ ~fromFlags
            /\ ~cfg.disablePushProtection
            /\ pushProtection = "undefined"
    IN  [skip |-> cfg.noChangePushProtection,
         prompt |-> ~cfg.noChangePushProtection /\ ask,
         enable |-> IF ask THEN ConfirmPrompt(FALSE, input) ELSE fromFlags]

PushProtectionDecision(cfg, pushProtection, input) ==
    LET fromFlags ==
            IF cfg.disablePushProtection THEN FALSE
            ELSE cfg.enablePushProtection \/ pushProtection = "true"
        ask ==
            /\ ~fromFlags
            /\ ~cfg.disablePushProtection
            /\ pushProtection = "undefined"
    IN  [skip |-> cfg.noChangePushProtection,
         prompt |-> ~cfg.noChangePushProtection /\ ask,
         enable |-> IF ask THEN ConfirmPrompt(FALSE, input) ELSE fromFlags]

TogglePushProtectionClicksToEnable(isEnabled, enable) == enable

\* togglePushProtection: click the toggle when the state read from its
\* label differs from the wanted one
TogglePushProtectionClicks(isEnabled, enable) ==
    (~isEnabled /\ enable) \/ (isEnabled /\ ~enable)


\* togglePushProtection (repo) and togglePushProtectionConfig (org and
\* enterprise, called only to enable): the state of push protection of the
\* pattern once the push-protection part of processPattern is through
PushProtectionAfter(scope, isEnabled, enable) ==
    IF scope = "repo"
    THEN IF TogglePushProtectionClicks(isEnabled, enable) THEN ~isEnabled
         ELSE isEnabled
    ELSE IF enable THEN TRUE ELSE isEnabled
(***************************************************************************)
(* The values of the variables a specification does not use.               *)
(***************************************************************************)
GateIdle ==
    [phase |-> "idle", variant |-> "none", hits |-> 0, dryRunThreshold |-> 0,
     input |-> "enter", proceed |-> FALSE, prompts |-> <<>>]

NoResult ==
    [needToSubmit |-> FALSE, outcome |-> "none", ops |-> <<>>, form |-> NewForm]

FillIdle ==
    [phase |-> "idle", regex |-> [pattern |-> EmptyStr, start |-> Undefined, end |-> Undefined,
               additional_match |-> UndefinedList,
               additional_not_match |-> UndefinedList],
     isExisting |-> FALSE, forceSubmission |-> FALSE, addFail |-> 0,
     form |-> NewForm, remote |-> NewForm, first |-> NoResult,
     second |-> NoResult]

PatternName == <<"n">>


ConfigIdle == MakeConfig(0, FALSE, "keep", "repo", TRUE, NoFilter, NoFilter)

RemoteIdle == [n \in Names |-> RemoteAbsent]

IndexEmpty == [n \in Names |-> NoLocation]

NoFile == [status |-> "none", sound |-> TRUE, names |-> <<>>]

RunIdle ==
    [pc |-> "idle", shape |-> "none", numFiles |-> 0, maxPatterns |-> 0,
     fileIdx |-> 0, patIdx |-> 0, file |-> NoFile, faults |-> 0,
     sessionLost |-> FALSE, exitCode |-> 0, summary |-> "none"]

CurIdle ==
    [name |-> "none", file |-> 0, idx |-> 0, regex |-> PlainRegex, testData |-> Undefined,
     pushProtection |-> "undefined", location |-> NoLocation,
     target |-> EmptyStr, found |-> RemoteAbsent,
     isExisting |-> FALSE, form |-> NewForm, needToSubmit |-> FALSE,
     fillOutcome |-> "none", ops |-> <<>>, hits |-> 0, completed |-> FALSE,
     prompts |-> <<>>, steps |-> <<>>, published |-> FALSE,
     shouldProceed |-> "none", answer |-> "none", desired |-> "none",
     pushBefore |-> FALSE, pushAfter |-> FALSE,
     outcome |-> "none"]

\* pending: selected patterns of the loaded files not yet handed to
\* processPattern; unreported: a pattern was left without a record
\* handed: the names handed to processPattern so far in the run; twice: a
\* name was handed to it a second time
\* open: the pages processPattern has opened and not yet closed
TallyIdle ==
    [pending |-> 0, unreported |-> FALSE, handed |-> {}, twice |-> FALSE,
     open |-> 0]

\* deleteExistingPatterns not called; pages: the pattern pages it has
\* opened and not closed
DelIdle ==
    [pc |-> "off", listing |-> <<>>, queue |-> <<>>, idx |-> 0, pages |-> 0,
     prompts |-> <<>>, answer |-> "none", calls |-> <<>>, opened |-> <<>>,
     deleted |-> <<>>, failure |-> "none", result |-> "none"]

\* no dry run dialog open
DryIdle ==
    [pc |-> "idle", scope |-> "org", allRepos |-> FALSE, list |-> <<>>,
     idx |-> 0, mode |-> "none", searches |-> <<>>, selected |-> <<>>,
     confirmClicked |-> FALSE, result |-> "none"]

\* main before its first step
ProcIdle ==
    [pc |-> "idle", loggedIn |-> FALSE, browser |-> FALSE, exitCode |-> -1]

\* no single function under way
CallIdle == [fn |-> "none"]

\* the variables of the run, for the specifications that do not run
RunUnused ==
    /\ config = ConfigIdle
    /\ remote = RemoteIdle
    /\ existingPatterns = IndexEmpty
    /\ unprocessedPatterns = <<>>
    /\ run = RunIdle
    /\ cur = CurIdle
    /\ tally = TallyIdle
    /\ del = DelIdle
    /\ proc = ProcIdle

runVars ==
    <<config, remote, existingPatterns, unprocessedPatterns, run, cur, tally>>

\* every variable but call at rest
OnlyCall ==
    /\ gate = GateIdle
    /\ fill = FillIdle
    /\ dry = DryIdle
    /\ RunUnused

\* what a specification of a single function leaves alone
restVars == <<gate, fill, dry, runVars, del, proc>>

(***************************************************************************)
(* SpecGate: the confirmation gate applied to every hit count, threshold   *)
(* and user input within the bounds.                                       *)
(***************************************************************************)
GateInit ==
    /\ fill = FillIdle
    /\ RunUnused
    /\ dry = DryIdle
    /\ call = CallIdle
    /\ \E hits \in 0..MaxHits, dryRunThreshold \in 0..MaxThreshold,
          input \in PromptInputs :
         gate = [GateIdle EXCEPT !.phase = "start", !.hits = hits,
                                 !.dryRunThreshold = dryRunThreshold,
                                 !.input = input]

GateCall ==
    /\ gate.phase = "start"
    /\ LET r == confirmPatternAction(gate.hits, gate.dryRunThreshold, gate.input)
       IN  gate' = [gate EXCEPT !.phase = "done", !.variant = "dist",
                                !.proceed = r.proceed, !.prompts = r.prompts]
    /\ UNCHANGED <<call, fill, runVars, del, dry, proc>>

GateCallTs ==
    /\ gate.phase = "start"
    /\ LET r == confirmPatternActionTs(gate.hits, gate.dryRunThreshold, gate.input)
       IN  gate' = [gate EXCEPT !.phase = "done", !.variant = "ts",
                                !.proceed = r.proceed, !.prompts = r.prompts]
    /\ UNCHANGED <<call, fill, runVars, del, dry, proc>>

GateNext == GateCall \/ GateCallTs

SpecGate == GateInit /\ [][GateNext]_vars

C2_TsZeroThreshold ==
    (gate.phase = "done" /\ gate.variant = "ts" /\ gate.dryRunThreshold = 0) =>
        /\ (gate.hits = 0) => (gate.proceed /\ gate.prompts = <<>>)
        /\ (gate.hits = 1) => (Len(gate.prompts) = 1)

(***************************************************************************)
(* SpecFill: one call of fillInPattern from processPattern, for every      *)
(* catalog pattern and every remote form of the domains above.             *)
(***************************************************************************)
FillInit ==
    /\ gate = GateIdle
    /\ RunUnused
    /\ dry = DryIdle
    /\ call = CallIdle
    /\ \E regex \in RegexDomain, isExisting \in BOOLEAN,
          forceSubmission \in BOOLEAN, addFail \in 0..1 :
         \E form \in (IF isExisting THEN RemoteFormDomain ELSE {NewForm}) :
            fill = [phase |-> "start", regex |-> regex, isExisting |-> isExisting,
                    forceSubmission |-> forceSubmission, addFail |-> addFail,
                    form |-> form, remote |-> NewForm, first |-> NoResult,
                    second |-> NoResult]

\* processPattern up to the return of fillInPattern
FillCall ==
    /\ fill.phase = "start"
    /\ fill' = [fill EXCEPT
            !.phase = "filled",
            !.first = FillInPattern(fill.form, PatternName, ApplyDefaults(fill.regex),
                                    fill.isExisting, fill.forceSubmission,
                                    fill.addFail)]
    /\ UNCHANGED <<call, gate, runVars, del, dry, proc>>

\* what the remote form shows for a submitted form: the submitted values,
\* up to surrounding whitespace
Pad(str) == IF str = EmptyStr THEN str ELSE <<Space>> \o str \o <<Space>>

EchoModes == {"exact", "trimmed", "padded"}

EchoStr(str, mode) ==
    IF mode = "trimmed" THEN Trim(str)
    ELSE IF mode = "padded" THEN Pad(str) ELSE str

Echo(form, mode) ==
    [display_name |-> form.display_name,
     secret_format |-> EchoStr(form.secret_format, mode),
     before_secret |-> EchoStr(form.before_secret, mode),
     after_secret |-> EchoStr(form.after_secret, mode),
     rules |-> [i \in 1..Len(form.rules) |->
                    [type |-> form.rules[i].type,
                     value |-> EchoStr(form.rules[i].value, mode)]]]

\* the filled form is published (publishPattern) and the remote keeps it
FillPublish ==
    /\ fill.phase = "filled"
    /\ fill.first.needToSubmit
    /\ \E mode \in EchoModes :
         fill' = [fill EXCEPT !.phase = "published",
                              !.remote = Echo(fill.first.form, mode)]
    /\ UNCHANGED <<call, gate, runVars, del, dry, proc>>

\* the next run on the same catalog: the pattern file is loaded again and
\* the pattern is found in the remote index
FillSecondCall ==
    /\ fill.phase = "published"
    /\ fill' = [fill EXCEPT
            !.phase = "refilled",
            !.second = FillInPattern(fill.remote, PatternName, ApplyDefaults(fill.regex),
                                     TRUE, fill.forceSubmission, 0)]
    /\ UNCHANGED <<call, gate, runVars, del, dry, proc>>

FillNext == FillCall \/ FillPublish \/ FillSecondCall

SpecFill == FillInit /\ [][FillNext]_vars

\* the remote form and the catalog pattern hold the same values: every field
\* equal after trimming, both rule lists of equal length and equal element
\* by element after trimming
SameAfterTrim(strA, strB) == Trim(strA) = Trim(strB)

SameRuleList(rows, wanted) ==
    /\ Len(rows) = Len(wanted)
    /\ \A i \in 1..Len(rows) : SameAfterTrim(rows[i].value, wanted[i])

RemoteEqualsDesired(form, regex) ==
    /\ SameAfterTrim(form.secret_format, regex.pattern)
    /\ SameAfterTrim(form.before_secret, regex.start)
    /\ SameAfterTrim(form.after_secret, regex.end)
    /\ SameRuleList(RulesOfType(form.rules, "must_match"),
                    ListOrEmpty(regex.additional_match))
    /\ SameRuleList(RulesOfType(form.rules, "must_not_match"),
                    ListOrEmpty(regex.additional_not_match))

\* C3: once a run has published a pattern and the remote form shows the
\* submitted values (up to surrounding whitespace), the next run on the same
\* catalog with forceSubmission = false issues no remote field mutation for
\* it and fillInPattern returns needsSubmit = false.
C3_SecondRunIdempotent ==
    (fill.phase = "refilled" /\ ~fill.forceSubmission) =>
        /\ fill.second.ops = <<>>
        /\ ~fill.second.needToSubmit
        /\ fill.second.outcome = "unchanged"

C3_Witness ==
    /\ fill.phase = "refilled" /\ ~fill.forceSubmission
    /\ fill.remote # fill.first.form
    /\ Len(fill.remote.rules) = 2
    /\ fill.regex.start = Undefined
    /\ fill.second.outcome = "unchanged"

\* C4: for an existing pattern with forceSubmission = false, fillInPattern
\* reports "unchanged" exactly when the remote main pattern, both anchors and
\* both rule lists equal the desired ones after trimming.
C4_UnchangedIffEqual ==
    (fill.phase # "idle" /\ fill.phase # "start"
     /\ fill.isExisting /\ ~fill.forceSubmission) =>
        ((fill.first.outcome = "unchanged")
            <=> RemoteEqualsDesired(fill.form, ApplyDefaults(fill.regex)))

(***************************************************************************)
(* Spec: uploadPatterns.  The run starts with the remote in some state and *)
(* either one file of one pattern under any configuration, or NumFiles     *)
(* files of up to MaxPatterns patterns under the configurations that       *)
(* matter to the batch.                                                    *)
(***************************************************************************)
Thresholds == {0, 1}
DryRunHits == 0..2

\* the remote patterns a run may find
RemoteDomain(name) ==
    {RemoteAbsent,
     RemotePattern(PublishedForm(NameStr(name), PlainRegex), TRUE),
     RemotePattern(PublishedForm(NameStr(name), PlainRegex), FALSE),
     RemotePattern(Echo(PublishedForm(NameStr(name), PlainRegex), "trimmed"), TRUE),
     RemotePattern(PublishedForm(NameStr(name), RuleRegex), TRUE)}

BatchRemoteDomain(name) ==
    {RemoteAbsent,
     RemotePattern(PublishedForm(NameStr(name), PlainRegex), TRUE)}

SingleConfigs ==
    {MakeConfig(t, f, m, s, TRUE, NoFilter, NoFilter) :
        t \in Thresholds, f \in BOOLEAN, m \in PushModes, s \in Scopes}

BatchConfigs ==
    {MakeConfig(0, FALSE, "keep", "repo", TRUE, NoFilter, NoFilter),
     MakeConfig(0, FALSE, "keep", "repo", FALSE, FilterOf({"n1"}), NoFilter),
     MakeConfig(0, FALSE, "keep", "repo", TRUE, NoFilter, FilterOf({"n2"}))}

\* the patterns a file may hold: [regex, test data, push_protection]
SinglePatterns == BatchRegexes \X TestDataDomain \X PushProtectionDomain
BatchPatterns == {<<PlainRegex, <<"a">>, "undefined">>}

PatternsOf(r) == IF r.shape = "single" THEN SinglePatterns ELSE BatchPatterns

Started(shape, numFiles, maxPatterns) ==
    [RunIdle EXCEPT !.pc = "start", !.shape = shape, !.numFiles = numFiles,
                    !.maxPatterns = maxPatterns]

\* the environment fails at most MaxFaults times in a run
MaxFaults == 1

CanFail(r) == r.faults < MaxFaults
Fault(r) == [r EXCEPT !.faults = @ + 1]

\* a run that only deletes: any filters, any of the names on the remote
DeleteConfigs ==
    {[MakeConfig(0, FALSE, "keep", "repo", TRUE, i, x)
        EXCEPT !.deleteExisting = TRUE] :
        i \in {NoFilter, FilterOf({"n1"}), FilterOf({"n2"})},
        x \in {NoFilter, FilterOf({"n1"}), FilterOf(Names)}}

DeleteRemotes ==
    {rem \in [Names -> UNION {BatchRemoteDomain(n) : n \in Names}] :
        \A n \in Names : rem[n] \in BatchRemoteDomain(n)}

\* a run of --validate-only: parseArgs sets validate with it
ValidateOnlyConfigs ==
    {[MakeConfig(0, FALSE, "keep", "repo", TRUE, i, NoFilter)
        EXCEPT !.validateOnly = TRUE] : i \in {NoFilter, FilterOf({"n1"})}}

\* main is entered
ProcStart == [ProcIdle EXCEPT !.pc = "main"]

Init ==
    /\ gate = GateIdle
    /\ fill = FillIdle
    /\ del = DelIdle
    /\ dry = DryIdle
    /\ call = CallIdle
    /\ proc = ProcStart
    /\ existingPatterns = IndexEmpty
    /\ unprocessedPatterns = <<>>
    /\ cur = CurIdle
    /\ tally = TallyIdle
    /\ \/ /\ config \in SingleConfigs
          /\ \E r \in RemoteDomain("n1") :
                remote = [n \in Names |-> IF n = "n1" THEN r ELSE RemoteAbsent]
          /\ run = Started("single", 1, 1)
       \/ /\ config \in BatchConfigs
          /\ \E r \in BatchRemoteDomain("n1") :
                remote = [n \in Names |-> IF n = "n1" THEN r ELSE RemoteAbsent]
          /\ run = Started("batch", NumFiles, MaxPatterns)
       \/ /\ config \in DeleteConfigs
          /\ remote \in DeleteRemotes
          /\ run = Started("delete", 0, 0)
       \/ /\ config \in ValidateOnlyConfigs
          /\ remote = RemoteIdle
          /\ \E n \in 0..NumFiles : run = Started("validate", n, MaxPatterns)

\* ---- what the end of processPattern does to the run ----

\* the loop of uploadPatterns goes on with the next pattern of the file
AdvanceRun(r) == [r EXCEPT !.pc = "pattern", !.patIdx = @ + 1]

\* exit(1)
ExitRun(r) == [r EXCEPT !.pc = "exited", !.exitCode = 1, !.sessionLost = TRUE]

AbortFile(r) == [r EXCEPT !.pc = "file", !.fileIdx = @ + 1]

\* the catch clause of uploadPatterns around processPattern
RunAfterFailureAbortsFile(r, message) ==
    IF IsSessionLoss(message) THEN ExitRun(r) ELSE AbortFile(r)

RunAfterFailure(r, message) ==
    IF IsSessionLoss(message) THEN ExitRun(r) ELSE AdvanceRun(r)

RecordFailure(entries, file, name, message) ==
    Append(entries, [file |-> file, name |-> name, message |-> message])

\* the pattern ends neither published nor found unchanged
IsLeft(c) == ~c.published /\ c.fillOutcome # "unchanged"

\* the end of a pattern that no entry of unprocessedPatterns records
TallyEnd(t, c) == [t EXCEPT !.unreported = @ \/ IsLeft(c)]

ClosePageNever(t) == t

\* the finally clause of processPattern: page.close()
ClosePage(t) == [t EXCEPT !.open = @ - 1]

Step(c, step) == [c EXCEPT !.steps = Append(@, step)]

\* processPattern throws: the page is closed, uploadPatterns catches
Throws(r, c, message) ==
    /\ unprocessedPatterns' =
          RecordFailure(unprocessedPatterns, r.fileIdx, c.name, message)
    /\ cur' = [c EXCEPT !.outcome = "failed"]
    /\ tally' = ClosePage(tally)
    /\ run' = RunAfterFailure(r, message)

\* processPattern returns
Returns(r, c, outcome) ==
    /\ UNCHANGED unprocessedPatterns
    /\ cur' = [c EXCEPT !.outcome = outcome]
    /\ tally' = ClosePage(TallyEnd(tally, c))
    /\ run' = AdvanceRun(r)

\* ---- uploadPatterns ----

LoopAtPatternOrInFlight(r) ==
    r.pc \in {"pattern", "fill", "test", "dryrun", "confirm", "publish",
              "title", "push"}

\* the loop over the patterns of a file is at the head of its body: the
\* call of processPattern for the pattern before has been awaited
LoopAtPattern(r) == r.pc = "pattern"

\* findExistingPatterns builds the index, or fails and the run ends
FindExisting ==
    /\ run.pc = "start"
    /\ proc.pc = "running"
    /\ del.pc \in {"off", "returned"}
    /\ run.numFiles > 0
    /\ \E loaded \in BOOLEAN :
         IF loaded
         THEN /\ existingPatterns' = IndexOf(remote)
              /\ run' = [run EXCEPT !.pc = "file", !.fileIdx = 1]
         ELSE /\ UNCHANGED existingPatterns
              /\ run' = [Fault(run) EXCEPT !.pc = "aborted"]
    /\ UNCHANGED <<call, del, dry, proc, gate, fill, config, remote, unprocessedPatterns, cur, tally>>

CountSelected(cfg, names) ==
    Cardinality({i \in 1..Len(names) : IsSelected(cfg, names[i])})

\* loadPatternFile and validatePatterns for the next file
LoadFile ==
    /\ run.pc = "file"
    /\ run.fileIdx <= run.numFiles
    /\ \E readable \in BOOLEAN, sound \in BOOLEAN,
          names \in SeqUpTo(Names, run.maxPatterns) :
         LET file == [status |-> IF readable THEN "ok" ELSE "unreadable",
                      sound |-> sound, names |-> names]
         IN  /\ ~readable => (sound /\ names = <<>>)
             /\ (~readable \/ ~sound) => CanFail(run)
             /\ IF ~readable \/ (config.validate /\ ~ValidatePatternFile(file))
                THEN /\ run' = [AbortFile(IF readable /\ sound THEN run
                                          ELSE Fault(run))
                                  EXCEPT !.file = file]
                     /\ UNCHANGED tally
                ELSE /\ run' = [(IF sound THEN run ELSE Fault(run))
                                  EXCEPT !.pc = "pattern", !.patIdx = 1,
                                         !.file = file]
                     /\ tally' = [tally EXCEPT
                                    !.pending = @ + CountSelected(config, names)]
    /\ cur' = CurIdle
    /\ UNCHANGED <<call, del, dry, proc, gate, fill, config, remote, existingPatterns,
                   unprocessedPatterns>>

\* the patterns of the file are done
EndOfFile ==
    /\ run.pc = "pattern"
    /\ run.patIdx > Len(run.file.names)
    /\ run' = AbortFile(run)
    /\ cur' = CurIdle
    /\ UNCHANGED <<call, del, dry, proc, gate, fill, config, remote, existingPatterns,
                   unprocessedPatterns, tally>>

\* a pattern the include / exclude lists leave out
SkipPattern ==
    /\ run.pc = "pattern"
    /\ run.patIdx <= Len(run.file.names)
    /\ ~IsSelected(config, run.file.names[run.patIdx])
    /\ run' = [run EXCEPT !.patIdx = @ + 1]
    /\ cur' = CurIdle
    /\ UNCHANGED <<call, del, dry, proc, gate, fill, config, remote, existingPatterns,
                   unprocessedPatterns, tally>>

\* the summary at the end of uploadPatterns
Summary ==
    /\ run.pc = "file"
    /\ run.fileIdx > run.numFiles
    /\ run' = [run EXCEPT
                 !.pc = "done",
                 !.summary = IF Len(unprocessedPatterns) > 0
                             THEN "failures" ELSE "success"]
    /\ UNCHANGED <<call, del, dry, proc, gate, fill, config, remote, existingPatterns,
                   unprocessedPatterns, cur, tally>>

\* ---- processPattern ----

NavOutcomes == {"ok", "failed", "closed"}
DryRunOutcomes == {"null", "no_id", "closed", "completed"}

\* from the entry of processPattern to the loaded pattern page
BeginPattern ==
    /\ LoopAtPattern(run)
    /\ run.patIdx <= Len(run.file.names)
    /\ IsSelected(config, run.file.names[run.patIdx])
    /\ \E p \in PatternsOf(run), nav \in NavOutcomes :
         LET name == run.file.names[run.patIdx]
             location == existingPatterns[name]
             isExisting == location.kind # "none"
             c == [CurIdle EXCEPT
                     !.name = name, !.file = run.fileIdx, !.idx = run.patIdx,
                     !.regex = ApplyDefaults(p[1]),
                     !.testData = p[2], !.pushProtection = p[3],
                     !.location = location, !.target = TargetUrl(location),
                     !.found = remote[name], !.isExisting = isExisting,
                     !.form = IF isExisting THEN remote[name].form ELSE NewForm,
                     !.outcome = "running"]
             opened == Step(c, IF isExisting THEN "goto_existing" ELSE "goto_new")
             \* goto fails when the address is not that of a page
             forced == ~IsPage(TargetUrl(location))
         IN  /\ tally' = [tally EXCEPT
                            !.pending = @ - 1,
                            !.handed = @ \cup {name},
                            !.twice = @ \/ (name \in tally.handed),
                            \* context.newPage(), closed again when goto fails
                            !.open = IF ~run.sessionLost /\ nav = "ok"
                                     THEN @ + 1 ELSE @,
                            !.unreported = @ \/ (~run.sessionLost /\ nav # "ok")]
             /\ IF run.sessionLost
                THEN \* context.newPage() throws
                     /\ nav = "closed"
                     /\ unprocessedPatterns' =
                           RecordFailure(unprocessedPatterns, run.fileIdx, name,
                                         ClosedMessage)
                     /\ cur' = [c EXCEPT !.outcome = "failed"]
                     /\ run' = RunAfterFailure(run, ClosedMessage)
                ELSE /\ UNCHANGED unprocessedPatterns
                     /\ forced => (nav = "failed")
                     /\ (~forced /\ nav # "ok") => CanFail(run)
                     /\ cur' = [opened EXCEPT
                                  !.outcome = IF nav = "ok" THEN "running"
                                              ELSE "load_failed"]
                     /\ run' = IF nav = "ok" THEN [run EXCEPT !.pc = "fill"]
                               ELSE [AdvanceRun(IF forced THEN run ELSE Fault(run))
                                       EXCEPT !.sessionLost = (nav = "closed")]
    /\ UNCHANGED <<call, del, dry, proc, gate, fill, config, remote, existingPatterns>>

\* fillInPattern
Fill ==
    /\ run.pc = "fill"
    /\ \E addFail \in 0..1, closed \in BOOLEAN :
         LET r == FillInPattern(cur.form, NameStr(cur.name), cur.regex,
                                cur.isExisting, config.forceSubmission, addFail)
             c == [Step(cur, IF cur.isExisting THEN "fill_update" ELSE "fill_create")
                     EXCEPT !.form = r.form, !.needToSubmit = r.needToSubmit,
                            !.fillOutcome = r.outcome, !.ops = r.ops]
         IN  /\ (closed \/ addFail = 1) => CanFail(run)
             /\ closed => (addFail = 0)
             /\ (addFail = 1) => (r.outcome = "add_failed")
             /\ IF closed
                THEN Throws(Fault(run), cur, ClosedMessage)
                ELSE /\ cur' = c
                     /\ run' = [(IF addFail = 1 THEN Fault(run) ELSE run) EXCEPT
                                  !.pc = IF r.needToSubmit THEN "test" ELSE "title"]
                     /\ UNCHANGED <<unprocessedPatterns, tally>>
    /\ UNCHANGED <<call, del, dry, proc, gate, fill, config, remote, existingPatterns>>

\* testPattern, and the throw of processPattern when it fails
Test ==
    /\ run.pc = "test"
    /\ \E text \in TestTexts, errorExists \in BOOLEAN, closed \in BOOLEAN :
         LET c == Step(cur, "test")
             passed == TestPattern(cur.testData, text, errorExists)
         IN  /\ (closed \/ ~passed) => CanFail(run)
             /\ closed => (text = "matches" /\ ~errorExists)
             /\ IF closed THEN Throws(Fault(run), c, ClosedMessage)
                ELSE IF ~passed THEN Throws(Fault(run), c, TestFailedMessage)
                ELSE /\ cur' = c
                     /\ run' = [run EXCEPT !.pc = "dryrun"]
                     /\ UNCHANGED <<unprocessedPatterns, tally>>
    /\ UNCHANGED <<call, del, dry, proc, gate, fill, config, remote, existingPatterns>>

\* performDryRun: the null result, a throw, or a completed dry run
DryRun ==
    /\ run.pc = "dryrun"
    /\ \E out \in DryRunOutcomes, hits \in DryRunHits :
         LET c == Step(cur, "dry_run")
         IN  /\ (out # "completed") => (hits = 0 /\ CanFail(run))
             /\ IF out = "closed"
                THEN Throws(Fault(run), c, ClosedMessage) /\ UNCHANGED remote
                ELSE IF out = "no_id"
                THEN Throws(Fault(run), c, NoPatternIdMessage) /\ UNCHANGED remote
                ELSE /\ cur' = [c EXCEPT !.hits = hits,
                                         !.completed = (out = "completed")]
                     /\ run' = [(IF out = "null" THEN Fault(run) ELSE run)
                                  EXCEPT !.pc = "confirm"]
                     \* a completed dry run of a new pattern leaves it on the
                     \* remote, unpublished
                     /\ remote' = IF out = "completed" /\ ~remote[cur.name].exists
                                  THEN [remote EXCEPT ![cur.name] =
                                            RemotePattern(cur.form, FALSE)]
                                  ELSE remote
                     /\ UNCHANGED <<unprocessedPatterns, tally>>
    /\ UNCHANGED <<call, del, dry, proc, gate, fill, config, existingPatterns>>

ReturnsAfterGateNever(shouldProceed) == FALSE

\* if (!shouldProceed) return
ReturnsAfterGate(shouldProceed) == ~shouldProceed

\* confirmPatternAction, and the return of processPattern when it is false
Confirm ==
    /\ run.pc = "confirm"
    /\ \E input \in PromptInputs :
         LET r == confirmPatternAction(cur.hits, config.dryRunThreshold, input)
             c == [cur EXCEPT
                     !.prompts = @ \o [i \in 1..Len(r.prompts) |-> "proceed"],
                     !.shouldProceed = IF r.proceed THEN "true" ELSE "false"]
         IN  /\ (r.prompts = <<>>) => (input = "enter")
             /\ IF ~ReturnsAfterGate(r.proceed)
                THEN /\ cur' = c
                     /\ run' = [run EXCEPT !.pc = "publish"]
                     /\ UNCHANGED <<unprocessedPatterns, tally>>
                ELSE Returns(run, c, "skipped")
    /\ UNCHANGED <<call, del, dry, proc, gate, fill, config, remote, existingPatterns>>

IndexAfterPublishUnchanged(index, name) == index

\* existingPatterns.set(pattern.name, page.url())
IndexAfterPublish(index, name) == [index EXCEPT ![name] = UrlLocation(name)]

\* publishPattern after the gate, and the update of the index
Publish ==
    /\ run.pc = "publish"
    /\ \E closed \in BOOLEAN :
         LET c == Step(cur, "publish")
         IN  /\ closed => CanFail(run)
             /\ IF closed
                THEN /\ Throws(Fault(run), c, ClosedMessage)
                     /\ UNCHANGED <<remote, existingPatterns>>
                ELSE /\ cur' = [c EXCEPT !.published = TRUE]
                     /\ remote' = [remote EXCEPT ![cur.name] =
                                      RemotePattern(cur.form, TRUE)]
                     /\ existingPatterns' =
                           IndexAfterPublish(existingPatterns, cur.name)
                     /\ run' = [run EXCEPT !.pc = "push"]
                     /\ UNCHANGED <<unprocessedPatterns, tally>>
    /\ UNCHANGED <<call, del, dry, proc, gate, fill, config>>

TitleSaysUnpublishedAlways(c, rem) == c.isExisting

\* the heading of the pattern page says "Unpublished pattern"
TitleSaysUnpublished(c, rem) ==
    c.isExisting /\ rem[c.name].exists /\ ~rem[c.name].published

\* nothing to submit: publish all the same when the page is that of an
\* unpublished pattern
Republish ==
    /\ run.pc = "title"
    /\ IF TitleSaysUnpublished(cur, remote)
       THEN /\ cur' = [Step(cur, "publish") EXCEPT !.published = TRUE]
            /\ remote' = [remote EXCEPT ![cur.name] =
                             RemotePattern(cur.form, TRUE)]
       ELSE /\ cur' = Step(cur, "title")
            /\ UNCHANGED remote
    /\ run' = [run EXCEPT !.pc = "push"]
    /\ UNCHANGED <<call, del, dry, proc, gate, fill, config, existingPatterns, unprocessedPatterns,
                   tally>>

PushFaults == {"none", "nav_failed", "closed"}

\* the push-protection part of processPattern, to its end
PushProt ==
    /\ run.pc = "push"
    /\ \E input \in PromptInputs, isEnabled \in BOOLEAN, fault \in PushFaults :
         LET d == PushProtectionDecision(config, cur.pushProtection, input)
             seen == [cur EXCEPT !.pushBefore = isEnabled, !.pushAfter = isEnabled]
             asked == IF d.prompt
                      THEN [seen EXCEPT !.prompts = Append(@, "push_protection"),
                                        !.answer = input]
                      ELSE seen
             decided == [asked EXCEPT
                           !.desired = IF d.enable THEN "true" ELSE "false"]
             viaConfig == config.scope # "repo" /\ d.enable
             stepped ==
                 IF config.scope = "repo"
                 THEN IF TogglePushProtectionClicks(isEnabled, d.enable)
                      THEN Step(decided,
                                IF d.enable THEN "toggle_on" ELSE "toggle_off")
                      ELSE decided
                 ELSE IF d.enable THEN Step(decided, "config_toggle_on")
                      ELSE decided
             toggled == [stepped EXCEPT
                           !.pushAfter =
                              PushProtectionAfter(config.scope, isEnabled, d.enable)]
         IN  /\ ~d.prompt => (input = "enter")
             \* push protection is on only for a pattern the remote held
             /\ isEnabled => cur.found.exists
             /\ d.skip => (fault = "none")
             /\ ~viaConfig => (fault # "nav_failed")
             /\ (fault # "none") => CanFail(run)
             /\ IF d.skip THEN Returns(run, [seen EXCEPT !.desired = "skipped"], "done")
                ELSE IF fault = "closed"
                THEN Throws(Fault(run), decided, ClosedMessage)
                ELSE IF fault = "nav_failed"
                THEN Throws(Fault(run), decided, PushProtectionMessage)
                ELSE Returns(run, toggled, "done")
    /\ UNCHANGED <<call, del, dry, proc, gate, fill, config, remote, existingPatterns>>

(***************************************************************************)
(* main: the validate-only branch, or login and the browser before the     *)
(* batch operations.                                                       *)
(***************************************************************************)
\* process.exit(code)
Exit(p, code) == [p EXCEPT !.pc = "exited", !.exitCode = code]

\* login, the check of the stored state, chromium.launch
Login ==
    /\ proc.pc = "main"
    /\ ~config.validateOnly
    /\ \E ok \in BOOLEAN :
         IF ok
         THEN /\ proc' = [proc EXCEPT !.pc = "running", !.loggedIn = TRUE,
                                      !.browser = TRUE]
              /\ del' = IF config.deleteExisting
                        THEN [DelIdle EXCEPT !.pc = "start"] ELSE del
         ELSE /\ proc' = Exit(proc, 1)
              /\ UNCHANGED del
    /\ UNCHANGED <<call, dry, gate, fill, config, remote, existingPatterns,
                   unprocessedPatterns, run, cur, tally>>

\* validate-only: no pattern file is an error, else the loop over the files
ValidateOnlyStart ==
    /\ proc.pc = "main"
    /\ config.validateOnly
    /\ IF run.numFiles = 0
       THEN /\ proc' = Exit(proc, 1)
            /\ UNCHANGED run
       ELSE /\ proc' = [proc EXCEPT !.pc = "validating"]
            /\ run' = [run EXCEPT !.fileIdx = 1]
    /\ UNCHANGED <<call, del, dry, gate, fill, config, remote, existingPatterns,
                   unprocessedPatterns, cur, tally>>

\* validate-only: loadPatternFile and validatePatterns for the next file
ValidateOnlyFile ==
    /\ proc.pc = "validating"
    /\ run.fileIdx <= run.numFiles
    /\ \E readable \in BOOLEAN, sound \in BOOLEAN,
          names \in SeqUpTo(Names, run.maxPatterns) :
         LET file == [status |-> IF readable THEN "ok" ELSE "unreadable",
                      sound |-> sound, names |-> names]
         IN  /\ ~readable => (sound /\ names = <<>>)
             /\ IF ~readable \/ ~ValidatePatternFile(file)
                THEN /\ proc' = Exit(proc, 1)
                     /\ run' = [run EXCEPT !.file = file]
                ELSE /\ UNCHANGED proc
                     /\ run' = [run EXCEPT !.file = file, !.fileIdx = @ + 1]
    /\ UNCHANGED <<call, del, dry, gate, fill, config, remote, existingPatterns,
                   unprocessedPatterns, cur, tally>>

\* validate-only: every file passed
ValidateOnlyEnd ==
    /\ proc.pc = "validating"
    /\ run.fileIdx > run.numFiles
    /\ proc' = Exit(proc, 0)
    /\ UNCHANGED <<call, del, dry, gate, fill, config, remote, existingPatterns,
                   unprocessedPatterns, run, cur, tally>>

(***************************************************************************)
(* deleteExistingPatterns.  del.calls is the log of what was asked of the  *)
(* remote, del.listing the discovered names in the order of the listing,   *)
(* del.queue the entries the filter keeps.                                 *)
(***************************************************************************)
\* the filter of deleteExistingPatterns on the discovered entries
IsSelectedForDelete(cfg, name) ==
    /\ (IF cfg.patternsToInclude.defined
        THEN name \in cfg.patternsToInclude.names ELSE TRUE)
    /\ ~(cfg.patternsToExclude.defined /\ name \in cfg.patternsToExclude.names)

PatternsToDeleteAll(cfg, listing) == listing

PatternsToDelete(cfg, listing) ==
    SelectSeq(listing, LAMBDA name : IsSelectedForDelete(cfg, name))

\* the orders in which a listing may give the names of a set
Orderings(S) ==
    {s \in [1..Cardinality(S) -> S] : \A n \in S : \E i \in DOMAIN s : s[i] = n}

Discovered(index) == {n \in Names : index[n] # NoLocation}

DelReturn(d, result) == [d EXCEPT !.pc = "returned", !.result = result]

\* the settings page is loaded
DelSettings ==
    /\ del.pc = "start"
    /\ \E success \in BOOLEAN :
         del' = IF success
                THEN [del EXCEPT !.pc = "discover",
                                 !.calls = Append(@, <<"goto_settings">>)]
                ELSE DelReturn([del EXCEPT
                                  !.calls = Append(@, <<"goto_settings">>)],
                               "load_failed")
    /\ UNCHANGED <<call, dry, proc, gate, fill, config, remote, existingPatterns,
                   unprocessedPatterns, run, cur, tally>>

\* findExistingPatterns, then the filter on what it found
DelDiscover ==
    /\ del.pc = "discover"
    /\ LET called == [del EXCEPT !.calls = Append(@, <<"find_existing">>)]
       IN  \E found \in BOOLEAN :
             IF ~found
             THEN /\ del' = DelReturn(called, "find_failed")
                  /\ UNCHANGED existingPatterns
             ELSE /\ existingPatterns' = IndexOf(remote)
                  /\ \E listing \in Orderings(Discovered(IndexOf(remote))) :
                       LET patternsToDelete == PatternsToDelete(config, listing)
                           listed == [called EXCEPT !.listing = listing,
                                                    !.queue = patternsToDelete]
                       IN  del' =
                             IF Len(listing) = 0
                             THEN DelReturn(listed, "none_found")
                             ELSE IF Len(patternsToDelete) = 0
                             THEN DelReturn(listed, "none_selected")
                             ELSE [listed EXCEPT !.pc = "confirm"]
    /\ UNCHANGED <<call, dry, proc, gate, fill, config, remote, unprocessedPatterns,
                   run, cur, tally>>

\* the one confirmation of the batch
DelConfirm ==
    /\ del.pc = "confirm"
    /\ \E input \in PromptInputs :
         LET asked == [del EXCEPT !.prompts = Append(@, [default |-> FALSE]),
                                  !.answer = input]
         IN  del' = IF ConfirmPrompt(FALSE, input)
                    THEN [asked EXCEPT !.pc = "loop", !.idx = 1]
                    ELSE DelReturn(asked, "cancelled")
    /\ UNCHANGED <<call, dry, proc, gate, fill, config, remote, existingPatterns,
                   unprocessedPatterns, run, cur, tally>>

\* what may happen to one pattern of the loop
DeleteOutcomes == {"deleted", "load_failed", "no_dialog", "click_failed", "closed"}

\* one pattern of the loop: its page, the dialog, the confirming click
DelPattern ==
    /\ del.pc = "loop"
    /\ del.idx <= Len(del.queue)
    /\ LET name == del.queue[del.idx]
           open == <<"open", name>>
           dialog == <<"dialog", name>>
           click == <<"confirm_delete", name>>
       IN  \E outcome \in DeleteOutcomes :
             CASE outcome = "closed" ->
                    \* context.newPage throws
                    /\ del' = DelReturn([del EXCEPT !.failure = outcome], "aborted")
                    /\ UNCHANGED remote
               [] outcome = "load_failed" ->
                    \* goto returns false: on to the next pattern
                    /\ del' = [del EXCEPT !.calls = Append(@, open),
                                          !.pages = @ + 1,
                                          !.idx = @ + 1]
                    /\ UNCHANGED remote
               [] outcome = "no_dialog" ->
                    \* showDialog throws: the catch clause returns
                    /\ del' = DelReturn([del EXCEPT
                                           !.calls = @ \o <<open, dialog>>,
                                           !.opened = Append(@, name),
                                           !.pages = @ + 1,
                                           !.failure = outcome], "aborted")
                    /\ UNCHANGED remote
               [] outcome = "click_failed" ->
                    \* click throws: the catch clause returns
                    /\ del' = DelReturn([del EXCEPT
                                           !.calls = @ \o <<open, dialog, click>>,
                                           !.opened = Append(@, name),
                                           !.pages = @ + 1,
                                           !.failure = outcome], "aborted")
                    /\ UNCHANGED remote
               [] outcome = "deleted" ->
                    /\ del' = [del EXCEPT
                                 !.calls = @ \o <<open, dialog, click>>,
                                 !.opened = Append(@, name),
                                           !.pages = @ + 1,
                                 !.deleted = Append(@, name),
                                 !.idx = @ + 1]
                    /\ remote' = [remote EXCEPT ![name] = RemoteAbsent]
    /\ UNCHANGED <<call, dry, proc, gate, fill, config, existingPatterns,
                   unprocessedPatterns, run, cur, tally>>

\* the loop is over
DelEnd ==
    /\ del.pc = "loop"
    /\ del.idx > Len(del.queue)
    /\ del' = DelReturn(del, "done")
    /\ UNCHANGED <<call, dry, proc, gate, fill, config, remote, existingPatterns,
                   unprocessedPatterns, run, cur, tally>>

(***************************************************************************)
(* SpecDryRun: the repository selector dialog of performDryRun at          *)
(* organization and enterprise scope, from showDialog to the confirm       *)
(* button.                                                                 *)
(***************************************************************************)
MaxRepos == 2

Slash == "/"

\* the --dry-run-repo arguments: "o/a", "a", "b"
RepoArgs == {<<"o", Slash, "a">>, <<"a">>, <<"b">>}

\* the labels a dropdown may show: "a", " a ", "ab", "b"
Labels == {<<"a">>, <<Space, "a", Space>>, <<"a", "b">>, <<"b">>}

\* String.prototype.includes('/')
IncludesSlash(s) == \E i \in 1..Len(s) : s[i] = Slash

\* the positions of the slashes of s from position i on, Len(s) + 1 if none
RECURSIVE NextSlash(_, _)
NextSlash(s, i) ==
    IF i > Len(s) THEN Len(s) + 1
    ELSE IF s[i] = Slash THEN i ELSE NextSlash(s, i + 1)

\* repo.split('/', 2)[1] of a string with a slash
SecondSegment(s) ==
    LET first == NextSlash(s, 1)
        second == NextSlash(s, first + 1)
    IN  SubSeq(s, first + 1, second - 1)

\* the name put into the search field
SearchedName(scope, repo) ==
    IF scope = "org" /\ IncludesSlash(repo) THEN SecondSegment(repo) ELSE repo

\* the comparison of an option with the searched name
OptionMatches(label, repo) == Trim(label) = repo

DryInit ==
    /\ gate = GateIdle
    /\ fill = FillIdle
    /\ RunUnused
    /\ call = CallIdle
    /\ \E scope \in {"org", "enterprise"}, allRepos \in BOOLEAN,
          list \in SeqUpTo(RepoArgs, MaxRepos) :
         \* parseArgs: organization scope needs all repositories or a list
         /\ (scope = "org" /\ ~allRepos) => Len(list) > 0
         /\ dry = [DryIdle EXCEPT !.pc = "dialog", !.scope = scope,
                                  !.allRepos = allRepos, !.list = list]

\* the dialog is shown: all repositories, or the listed ones
DryMode ==
    /\ dry.pc = "dialog"
    /\ dry' = IF dry.allRepos /\ dry.scope = "org"
              THEN [dry EXCEPT !.pc = "confirm", !.mode = "all"]
              ELSE [dry EXCEPT !.pc = "search", !.idx = 1,
                               !.mode = IF dry.scope = "org"
                                        THEN "specific" ELSE @]
    /\ UNCHANGED <<call, gate, fill, runVars, del, proc>>

\* one repository of the list: the search and the options of the dropdown
DrySearch ==
    /\ dry.pc = "search"
    /\ dry.idx <= Len(dry.list)
    /\ LET repo == SearchedName(dry.scope, dry.list[dry.idx])
           searched == [dry EXCEPT !.searches = Append(@, repo), !.idx = @ + 1]
       IN  \E repoOptions \in SUBSET Labels :
             IF \E option \in repoOptions : OptionMatches(option, repo)
             THEN \E option \in repoOptions :
                    /\ OptionMatches(option, repo)
                    /\ dry' = [searched EXCEPT
                                 !.selected = Append(@, [repo |-> repo,
                                                         label |-> option])]
             ELSE dry' = searched
    /\ UNCHANGED <<call, gate, fill, runVars, del, proc>>

\* after the list: the wait for a remove button of a selected repository,
\* then the count of the selected repositories
DrySelected ==
    /\ dry.pc = "search"
    /\ dry.idx > Len(dry.list)
    /\ \E removeButtonVisible \in BOOLEAN :
         \* every selected repository is listed with its remove button
         /\ removeButtonVisible <=> (Len(dry.selected) > 0)
         /\ dry' = IF ~removeButtonVisible
                   THEN [dry EXCEPT !.pc = "ended", !.result = "threw"]
                   ELSE IF Len(dry.selected) = 0
                   THEN [dry EXCEPT !.pc = "ended", !.result = "null_result"]
                   ELSE [dry EXCEPT !.pc = "confirm"]
    /\ UNCHANGED <<call, gate, fill, runVars, del, proc>>

\* the confirm button of the dialog
DryConfirm ==
    /\ dry.pc = "confirm"
    /\ dry' = [dry EXCEPT !.pc = "ended", !.confirmClicked = TRUE,
                          !.result = "submitted"]
    /\ UNCHANGED <<call, gate, fill, runVars, del, proc>>

DryNext ==
    \/ DryMode
    \/ DrySearch
    \/ DrySelected
    \/ DryConfirm

SpecDryRun == DryInit /\ [][DryNext]_vars

(***************************************************************************)
(* SpecValidator: PatternValidator.validatePatternFile(patternFile,        *)
(* config) on a file of up to MaxFilePatterns patterns.  An error is a     *)
(* tuple: its kind, and the position of the pattern it is about.           *)
(***************************************************************************)
MaxFilePatterns == 2

\* the names a pattern of the file may carry; "" is a name of blanks only
ValidatorNames == Names \cup {""}

\* regex.pattern of a pattern: empty, one character, five characters
ValidatorRegexes == {EmptyStr, <<"a">>, <<"a", "b", "c", "d", "e">>}

ValidatorPatterns == [name : ValidatorNames, pattern : ValidatorRegexes]

\* the configurations that matter to the validator: the name lists
ValidatorConfigs ==
    {MakeConfig(0, FALSE, "keep", "repo", TRUE, i, x) :
        i \in {NoFilter, FilterOf({"n1"})}, x \in {NoFilter, FilterOf({"n2"})}}

\* validateBasicStructure: the errors of one pattern
PatternErrors(p) ==
    (IF p.name = "" THEN <<"name_required">> ELSE <<>>)
    \o (IF Trim(p.pattern) = EmptyStr THEN <<"regex_required">> ELSE <<>>)
    \o (IF Len(p.pattern) = 1 THEN <<"regex_one_character">> ELSE <<>>)
    \o (IF Len(p.pattern) < 5 THEN <<"regex_short">> ELSE <<>>)

\* validatePattern
ValidatePattern(p) ==
    [isValid |-> PatternErrors(p) = <<>>, errors |-> PatternErrors(p)]

\* the errors validatePatternFile adds for the patterns from position i on
RECURSIVE FileErrorsFrom(_, _)
FileErrorsFrom(patterns, i) ==
    IF i > Len(patterns) THEN <<>>
    ELSE LET p == patterns[i]
             duplicate == \E j \in 1..(i - 1) : patterns[j].name = p.name
             own == ValidatePattern(p).errors
         IN  (IF duplicate THEN <<<<"duplicate", i>>>> ELSE <<>>)
             \o [k \in 1..Len(own) |-> <<own[k], i>>]
             \o FileErrorsFrom(patterns, i + 1)

\* validatePatternFile: the second argument of the call is not a parameter
\* of the function
validatePatternFile(file, cfg) ==
    LET errors ==
            (IF file.name = "" THEN <<<<"file_name", 0>>>> ELSE <<>>)
            \o (IF Len(file.patterns) = 0 THEN <<<<"no_patterns", 0>>>> ELSE <<>>)
            \o FileErrorsFrom(file.patterns, 1)
    IN  [isValid |-> errors = <<>>, errors |-> errors]

ValidatorInit ==
    /\ OnlyCall
    /\ \E name \in {"f", ""}, patterns \in SeqUpTo(ValidatorPatterns, MaxFilePatterns),
          cfg \in ValidatorConfigs :
         call = [fn |-> "validatePatternFile", pc |-> "called",
                 file |-> [name |-> name, patterns |-> patterns],
                 config |-> cfg,
                 result |-> [isValid |-> TRUE, errors |-> <<>>]]

Validate ==
    /\ call.fn = "validatePatternFile"
    /\ call.pc = "called"
    /\ call' = [call EXCEPT !.pc = "returned",
                            !.result = validatePatternFile(call.file, call.config)]
    /\ UNCHANGED restVars

ValidatorNext == Validate

SpecValidator == ValidatorInit /\ [][ValidatorNext]_vars

(***************************************************************************)
(* SpecCompare: comparePatterns on two values, each a string, null or      *)
(* undefined, called both ways round.                                      *)
(***************************************************************************)
CompareArgs ==
    {Null, Undefined, EmptyStr, <<Space>>, <<"a">>, <<Space, "a">>,
     <<"a", Space>>, <<Space, "a", Space>>, <<"a", "b">>, <<"a", Space, "b">>,
     <<"b">>}

CompareInit ==
    /\ OnlyCall
    /\ \E a \in CompareArgs, b \in CompareArgs :
         call = [fn |-> "comparePatterns", pc |-> "called",
                 patternA |-> a, patternB |-> b,
                 result |-> FALSE, swapped |-> FALSE]

Compare ==
    /\ call.fn = "comparePatterns"
    /\ call.pc = "called"
    /\ call' = [call EXCEPT
                  !.pc = "returned",
                  !.result = comparePatterns(call.patternA, call.patternB),
                  !.swapped = comparePatterns(call.patternB, call.patternA)]
    /\ UNCHANGED restVars

CompareNext == Compare

SpecCompare == CompareInit /\ [][CompareNext]_vars

(***************************************************************************)
(* SpecFind: findExistingPatterns over a listing of up to MaxListed rows,  *)
(* shown PageSize rows to a page, and what uploadPatterns does with the    *)
(* result.                                                                 *)
(***************************************************************************)
MaxListed == 3
PageSize == 2

\* link.getAttribute('href') of the rows: the pages of two patterns
Hrefs == {"/1", "/2"}

\* the rows of a listing: name and href of the link, "" when there is none
ListedRows ==
    {[name |-> n, href |-> h] : n \in Names \cup {""}, h \in Hrefs}
        \cup {[name |-> "n1", href |-> ""]}

\* new Map()
EmptyMap == [n \in Names |-> "none"]

MapSetIfAbsent(map, name, url) ==
    IF map[name] = "none" THEN [map EXCEPT ![name] = url] ELSE map

\* existingPatterns.set(name, url)
MapSet(map, name, url) == [map EXCEPT ![name] = url]

\* the loop over the rows of one page
RECURSIVE WalkRows(_, _, _)
WalkRows(map, rows, i) ==
    IF i > Len(rows) THEN map
    ELSE IF rows[i].name = "" \/ rows[i].href = ""
    THEN WalkRows(map, rows, i + 1)
    ELSE WalkRows(MapSet(map, rows[i].name, rows[i].href), rows, i + 1)

\* the rows the list shows after `from` rows were paged over
PageRows(listing, from) ==
    SubSeq(listing, from + 1,
           IF from + PageSize < Len(listing) THEN from + PageSize
           ELSE Len(listing))

\* the next-page button is visible and enabled
HasNextPage(listing, from) == from + PageSize < Len(listing)

FindInit ==
    /\ OnlyCall
    /\ \E listing \in SeqUpTo(ListedRows, MaxListed), message \in BOOLEAN,
          catalog \in {<<"n1">>, <<"n2", "n1">>} :
         \* the text "There are no custom patterns" only on an empty list
         /\ message => (listing = <<>>)
         /\ call = [fn |-> "findExistingPatterns", pc |-> "goto",
                    listing |-> listing, message |-> message,
                    catalog |-> catalog, from |-> 0, retried |-> FALSE,
                    walked |-> FALSE, navigated |-> "none",
                    existingPatterns |-> EmptyMap, result |-> "none",
                    handed |-> <<>>]

\* goto(page, url, config) of the settings page
FindGoto ==
    /\ call.fn = "findExistingPatterns"
    /\ call.pc = "goto"
    /\ \E success \in BOOLEAN :
         call' = IF success
                 THEN [call EXCEPT !.pc = "page", !.navigated = "ok"]
                 ELSE [call EXCEPT !.pc = "returned", !.navigated = "failed",
                                   !.result = "null"]
    /\ UNCHANGED restVars

\* one turn of the loop over the pages of the list
FindPage ==
    /\ call.fn = "findExistingPatterns"
    /\ call.pc = "page"
    /\ \E closed \in BOOLEAN, unstable \in BOOLEAN :
         LET rows == PageRows(call.listing, call.from)
         IN  /\ closed => ~unstable
             /\ unstable => (~call.retried /\ ~call.message)
             /\ call' =
                  IF closed
                  THEN \* the catch clause
                       [call EXCEPT !.pc = "returned", !.navigated = "closed",
                                    !.result = "null"]
                  ELSE IF call.message
                  THEN [call EXCEPT !.pc = "returned", !.result = "map"]
                  ELSE IF unstable
                  THEN \* all() throws: the same page again
                       [call EXCEPT !.retried = TRUE]
                  ELSE IF rows = <<>>
                  THEN [call EXCEPT !.pc = "returned", !.result = "map",
                                    !.walked = TRUE]
                  ELSE LET seen == [call EXCEPT
                                      !.walked = TRUE,
                                      !.existingPatterns = WalkRows(@, rows, 1)]
                       IN  IF HasNextPage(call.listing, call.from)
                           THEN [seen EXCEPT !.from = @ + PageSize]
                           ELSE [seen EXCEPT !.pc = "returned",
                                             !.result = "map"]
    /\ UNCHANGED restVars

\* uploadPatterns after findExistingPatterns: nothing on null, else the
\* patterns of the catalog, each handed to processPattern
UploadAfterFind ==
    /\ call.fn = "findExistingPatterns"
    /\ call.pc = "returned"
    /\ call' = IF call.result = "null"
               THEN [call EXCEPT !.pc = "done"]
               ELSE [call EXCEPT
                       !.pc = "done",
                       !.handed =
                          [i \in 1..Len(call.catalog) |->
                              [name |-> call.catalog[i],
                               existingPatternUrl |->
                                  call.existingPatterns[call.catalog[i]]]]]
    /\ UNCHANGED restVars

FindNext == FindGoto \/ FindPage \/ UploadAfterFind

SpecFind == FindInit /\ [][FindNext]_vars
(***************************************************************************)
(* SpecGoto: goto and reload, attempt by attempt.  The aborted attempts    *)
(* are counted up to MaxAborts; the loop itself has no count.              *)
(***************************************************************************)
MaxAborts == 3

NavMethods == {"goto", "reload"}

\* the start of the message of an error thrown by page.goto / page.reload
MethodPrefix(method) ==
    IF method = "goto" THEN "page.goto: " ELSE "page.reload: "

\* error messages, in pieces: an aborted request, a refused connection, a
\* timeout, a closed page
AbortedMessage(method) == <<MethodPrefix(method), "net::ERR", "_ABORTED", "; frame detached">>
RefusedMessage(method) == <<MethodPrefix(method), "net::ERR", "_CONNECTION_REFUSED">>
TimeoutMessage(method) == <<MethodPrefix(method), "Timeout 30000ms exceeded">>
NavClosedMessage(method) == <<MethodPrefix(method)>> \o ClosedMessage

NavErrors(method) ==
    {AbortedMessage(method), RefusedMessage(method), TimeoutMessage(method),
     NavClosedMessage(method)}

\* what one attempt gives: a response with its status, no response, or an
\* error
NavResponses ==
    {[kind |-> "response", status |-> 200], [kind |-> "response", status |-> 404],
     [kind |-> "response", status |-> 500], [kind |-> "null", status |-> 0]}

NavAttempts(method) ==
    NavResponses \cup {[kind |-> "error", message |-> m] : m \in NavErrors(method)}

\* Response.ok(): a status of 200 to 299
ResponseOk(response) ==
    response.kind = "response" /\ response.status >= 200 /\ response.status <= 299

\* error.message.startsWith(prefix)
StartsWith(message, prefix) ==
    Len(message) >= Len(prefix) /\ SubSeq(message, 1, Len(prefix)) = prefix

RetriesAnyNetError(method, message) ==
    StartsWith(message, <<MethodPrefix(method), "net::ERR">>)

\* the catch clause goes on with the loop
Retries(method, message) ==
    /\ StartsWith(message, <<MethodPrefix(method), "net::ERR">>)
    /\ StartsWith(message, <<MethodPrefix(method), "net::ERR", "_ABORTED">>)

GotoInit ==
    /\ OnlyCall
    /\ \E method \in NavMethods, debug \in BOOLEAN :
         call = [fn |-> method, pc |-> "attempt", debug |-> debug,
                 aborts |-> 0, last |-> [kind |-> "none"],
                 warnings |-> 0, result |-> "none"]

\* one turn of the loop: page.goto or page.reload, and what follows it
GotoAttempt ==
    /\ call.fn \in NavMethods
    /\ call.pc = "attempt"
    /\ \E attempt \in NavAttempts(call.fn) :
         LET seen == [call EXCEPT !.last = attempt]
         IN  call' =
               IF attempt.kind = "error"
               THEN IF Retries(call.fn, attempt.message)
                    THEN [seen EXCEPT
                            !.aborts = IF @ < MaxAborts THEN @ + 1 ELSE @,
                            !.warnings = IF call.debug THEN 1 ELSE @]
                    ELSE [seen EXCEPT !.pc = "returned", !.result = "false"]
               ELSE IF ~ResponseOk(attempt)
               THEN [seen EXCEPT !.pc = "returned", !.result = "false"]
               ELSE [seen EXCEPT !.pc = "returned", !.result = "true"]
    /\ UNCHANGED restVars

GotoNext == GotoAttempt

SpecGoto == GotoInit /\ [][GotoNext]_vars
(***************************************************************************)
(* SpecPoll: performDryRun from the look at the dry-run button to its      *)
(* return: the pattern id, the poll of the status, getDryRunResults.  The  *)
(* remote moves the status on by itself.  The repository dialog is in      *)
(* SpecDryRun.                                                             *)
(***************************************************************************)
\* the attempts are counted up to MaxAttempts, the loop itself has no count
MaxAttempts == 3

\* reads of the status that throw, at most
MaxReadErrors == 1

\* the status texts of the remote; "Failed" stands for any other text
PollStatuses == {"Queued", "In progress", "Completed", "Failed"}
TerminalStatuses == {"Completed", "Failed"}

StatusEndsPollNever(statusText) == FALSE

StatusEndsPollAlways(statusText) == TRUE

\* the poll loop breaks on this status text
StatusEndsPoll(statusText) == statusText \notin {"In progress", "Queued"}

\* nullResult; the name of the pattern is left out
NullResult == [id |-> "", hits |-> 0, results |-> 0, completed |-> FALSE]

\* what the page may show for "Total matches": no text, "0", "2", a text
\* that is no number
CountTexts == {"null", "0", "2", "x"}

\* parseInt(countText ?? '0', 10); -1 stands for NaN
ParseCount(countText) ==
    CASE countText = "null" -> 0
      [] countText = "0" -> 0
      [] countText = "2" -> 2
      [] OTHER -> -1

\* getDryRunResults: the count and the number of results extracted.
\*   container   the results container is visible
\*   countText   the text of the count, "error" when reading it throws
\*   listed      the number of results the lists of the page give, -1 when
\*               reading them throws
GetDryRunResults(container, countText, listed) ==
    IF ~container THEN [count |-> 0, results |-> 0]
    ELSE IF countText = "error" THEN [count |-> 0, results |-> 0]
    ELSE LET count == ParseCount(countText)
         IN  IF count = 0 \/ count = -1 THEN [count |-> 0, results |-> 0]
             ELSE IF listed = -1 THEN [count |-> count, results |-> 0]
             ELSE [count |-> count, results |-> listed]

PollIdle ==
    [fn |-> "performDryRun", pc |-> "button", remoteStatus |-> "Queued",
     lastRead |-> "none", terminalRead |-> FALSE, reloadFailed |-> FALSE,
     attempts |-> 0, readErrors |-> 0, extracted |-> FALSE,
     container |-> FALSE, countText |-> "null",
     returned |-> FALSE, result |-> NullResult]

PollInit ==
    /\ OnlyCall
    /\ \E status \in PollStatuses :
         call = [PollIdle EXCEPT !.remoteStatus = status]

PollReturn(c, result) ==
    [c EXCEPT !.pc = "returned", !.returned = TRUE, !.result = result]

\* the dry-run button: missing, disabled, its state unreadable, an
\* unexpected id, or clicked
Button ==
    /\ call.fn = "performDryRun"
    /\ call.pc = "button"
    /\ \E button \in {"missing", "disabled", "error", "unexpected_id", "clicked"} :
         call' = IF button = "clicked" THEN [call EXCEPT !.pc = "id"]
                 ELSE PollReturn(call, NullResult)
    /\ UNCHANGED restVars

\* the pattern id of the address the click led to
PatternId ==
    /\ call.fn = "performDryRun"
    /\ call.pc = "id"
    /\ \E patternId \in {"p", "new", ""} :
         call' = IF patternId = "" \/ patternId = "new"
                 THEN [call EXCEPT !.pc = "threw"]
                 ELSE [call EXCEPT !.pc = "poll",
                                   !.result = [@ EXCEPT !.id = patternId]]
    /\ UNCHANGED restVars

\* one read of the status
PollStatus ==
    /\ call.fn = "performDryRun"
    /\ call.pc = "poll"
    /\ \E readable \in BOOLEAN :
         /\ ~readable => call.readErrors < MaxReadErrors
         /\ call' =
              IF ~readable
              THEN [call EXCEPT !.pc = "reload", !.lastRead = "error",
                                !.readErrors = @ + 1]
              ELSE IF StatusEndsPoll(call.remoteStatus)
              THEN [call EXCEPT !.pc = "results",
                                !.lastRead = call.remoteStatus,
                                !.terminalRead =
                                    call.remoteStatus \in TerminalStatuses]
              ELSE [call EXCEPT !.pc = "reload",
                                !.lastRead = call.remoteStatus]
    /\ UNCHANGED restVars

\* the wait and the reload before the next read
Reload ==
    /\ call.fn = "performDryRun"
    /\ call.pc = "reload"
    /\ \E success \in BOOLEAN :
         call' = IF success
                 THEN [call EXCEPT
                         !.pc = "poll",
                         !.attempts = IF @ < MaxAttempts THEN @ + 1 ELSE @]
                 ELSE PollReturn([call EXCEPT !.reloadFailed = TRUE], NullResult)
    /\ UNCHANGED restVars

\* getDryRunResults and the return of the result
GetResults ==
    /\ call.fn = "performDryRun"
    /\ call.pc = "results"
    /\ \E container \in BOOLEAN, countText \in CountTexts \cup {"error"},
          listed \in {-1, 0, 2} :
         LET r == GetDryRunResults(container, countText, listed)
         IN  /\ ~container => (countText = "null" /\ listed = 0)
             /\ (countText \in {"null", "0", "x", "error"}) => listed = 0
             /\ call' = PollReturn([call EXCEPT !.extracted = TRUE,
                                                !.container = container,
                                                !.countText = countText],
                                   [id |-> call.result.id, hits |-> r.count,
                                    results |-> r.results, completed |-> TRUE])
    /\ UNCHANGED restVars

\* the remote goes on with the dry run
RemoteProgress ==
    /\ call.fn = "performDryRun"
    /\ call.pc \in {"poll", "reload"}
    /\ \/ /\ call.remoteStatus = "Queued"
          /\ call' = [call EXCEPT !.remoteStatus = "In progress"]
       \/ /\ call.remoteStatus = "In progress"
          /\ \E status \in TerminalStatuses :
               call' = [call EXCEPT !.remoteStatus = status]
    /\ UNCHANGED restVars

PollNext ==
    \/ Button
    \/ PatternId
    \/ PollStatus
    \/ Reload
    \/ GetResults
    \/ RemoteProgress

SpecPoll == PollInit /\ [][PollNext]_vars

\* the steps of performDryRun are taken when they can be; the remote is
\* under no obligation
SpecPollFair ==
    /\ PollInit
    /\ [][PollNext]_vars
    /\ WF_vars(PollStatus)
    /\ WF_vars(Reload)
    /\ WF_vars(GetResults)

(***************************************************************************)
(* SpecRepoToggle: up to MaxCalls calls of togglePushProtection on the     *)
(* page of one pattern of a repository.                                    *)
(***************************************************************************)
MaxCalls == 3

\* the label of the toggle: "Disable" while push protection is on,
\* "Enable" while it is off, with or without whitespace around it
LabelTexts(isOn) ==
    LET word == IF isOn THEN <<"Disable">> ELSE <<"Enable">>
    IN  {word, Pad(word)}

\* (await label.textContent())?.trim() === 'Disable'
IsEnabledLabel(text) ==
    IF IsNullish(text) THEN FALSE ELSE Trim(text) = <<"Disable">>

RepoToggleInit ==
    /\ OnlyCall
    /\ \E isOn \in BOOLEAN :
         call = [fn |-> "togglePushProtection", pushProtection |-> isOn,
                 calls |-> <<>>]

\* one call: the label is read, the toggle clicked or not, and the remote
\* turns push protection over at a click
RepoToggleCall ==
    /\ call.fn = "togglePushProtection"
    /\ Len(call.calls) < MaxCalls
    /\ \E enable \in BOOLEAN, text \in LabelTexts(call.pushProtection) :
         LET isEnabled == IsEnabledLabel(text)
             clicks == IF TogglePushProtectionClicks(isEnabled, enable)
                       THEN 1 ELSE 0
             after == IF clicks = 1 THEN ~call.pushProtection
                      ELSE call.pushProtection
         IN  call' = [call EXCEPT
                        !.pushProtection = after,
                        !.calls = Append(@, [enable |-> enable,
                                             label |-> text,
                                             before |-> call.pushProtection,
                                             isEnabled |-> isEnabled,
                                             clicks |-> clicks,
                                             after |-> after])]
    /\ UNCHANGED restVars

RepoToggleNext == RepoToggleCall

SpecRepoToggle == RepoToggleInit /\ [][RepoToggleNext]_vars
(***************************************************************************)
(* SpecTestPattern: the polling loop of testPattern and the verdict after  *)
(* it.  The remote shows any status text at each read.                     *)
(***************************************************************************)
\* config.maxTestTries is 0..MaxTries
MaxTries == 3

\* the text of div.js-test-pattern-matches: empty, or one of TestTexts
ReadTexts == TestTexts \cup {"empty"}

\* the condition of the while loop on the text read last
KeepsWaiting(testSuccess) == testSuccess \notin {"no_matches", "matches"}

\* pattern.test.data of the catalog: absent, empty, blank, or a text with
\* or without whitespace around it
TestInputs == TestDataDomain \cup {EmptyStr, <<Space, Space>>, Pad(<<"a">>)}

\* the text filled into the test box: a single space when there is no
\* data (absent or empty), else the trimmed data
SubmittedTestData(testData) ==
    IF ~Truthy(testData) THEN <<Space>> ELSE Trim(testData)

TestInit ==
    /\ OnlyCall
    /\ \E maxTestTries \in 0..MaxTries, testData \in TestInputs :
         call = [fn |-> "testPattern", pc |-> "loop",
                 maxTestTries |-> maxTestTries, testData |-> testData,
                 submitted |-> SubmittedTestData(testData),
                 testSuccess |-> "null", tries |-> 0, reads |-> 0,
                 result |-> FALSE]

\* one iteration of the loop: the read, the wait, the count of the tries
TestRead ==
    /\ call.fn = "testPattern"
    /\ call.pc = "loop"
    /\ \E text \in ReadTexts :
         LET tries == call.tries + 1
         IN  call' = [call EXCEPT
                        !.testSuccess = text,
                        !.tries = tries,
                        !.reads = @ + 1,
                        !.pc = IF tries > call.maxTestTries \/ ~KeepsWaiting(text)
                               THEN "verdict" ELSE "loop"]
    /\ UNCHANGED restVars

\* after the loop: the look for an error, the verdict on the text
TestVerdict ==
    /\ call.fn = "testPattern"
    /\ call.pc = "verdict"
    /\ \E errorExists \in BOOLEAN :
         call' = [call EXCEPT
                    !.pc = "returned",
                    !.result = TestPattern(call.testData, call.testSuccess,
                                           errorExists)]
    /\ UNCHANGED restVars

TestNext ==
    \/ TestRead
    \/ TestVerdict

SpecTestPattern == TestInit /\ [][TestNext]_vars

(***************************************************************************)
(* SpecToggle: togglePushProtectionConfig for the pattern named "n": the   *)
(* search for its row in the configuration table, then the setting.        *)
(***************************************************************************)
\* the searches are counted up to MaxSearches, the loop itself has no count
MaxSearches == 3

ToggleName == <<"n">>

\* the first cells of the rows a search may show: "n", " n ", "nx"
RowTexts == {ToggleName, Pad(ToggleName), ToggleName \o <<"x">>}

\* the row of the pattern among the rows shown
RowMatches(nameText, name) == Trim(nameText) = name

ToggleInit ==
    /\ OnlyCall
    /\ \E rowExists \in BOOLEAN, enable \in BOOLEAN,
          currentState \in {"Enabled", "Disabled"},
          scope \in {"org", "enterprise"} :
         call = [fn |-> "togglePushProtectionConfig", pc |-> "search",
                 scope |-> scope,
                 rowExists |-> rowExists,
                 enablePushProtectionFlag |-> enable,
                 currentState |-> currentState,
                 searches |-> 0, tableRow |-> Undefined, keys |-> <<>>]

\* one turn of the loop: the page, the Custom tab, the search, the rows
ToggleSearch ==
    /\ call.fn = "togglePushProtectionConfig"
    /\ call.pc = "search"
    /\ \E success \in BOOLEAN, tableRows \in SUBSET RowTexts :
         LET counted == [call EXCEPT
                           !.searches = IF @ < MaxSearches THEN @ + 1 ELSE @]
             found == \E row \in tableRows : RowMatches(row, ToggleName)
         IN  \* the table has the row of the pattern only if the remote has it
             /\ found => call.rowExists
             /\ ~success => tableRows = {}
             /\ IF ~success THEN call' = [counted EXCEPT !.pc = "threw"]
                ELSE IF found
                THEN \E row \in tableRows :
                       /\ RowMatches(row, ToggleName)
                       /\ call' = [counted EXCEPT !.pc = "toggle",
                                                  !.tableRow = row]
                ELSE call' = [counted EXCEPT !.pc = "wait"]
    /\ UNCHANGED restVars

\* the row was not found: the wait before the next turn
ToggleWait ==
    /\ call.fn = "togglePushProtectionConfig"
    /\ call.pc = "wait"
    /\ call' = [call EXCEPT !.pc = "search"]
    /\ UNCHANGED restVars

\* the toggle of the row: nothing to do, or the popover and Apply changes
ToggleApply ==
    /\ call.fn = "togglePushProtectionConfig"
    /\ call.pc = "toggle"
    /\ call' =
         IF \/ (call.enablePushProtectionFlag /\ call.currentState = "Enabled")
            \/ (~call.enablePushProtectionFlag /\ call.currentState = "Disabled")
         THEN [call EXCEPT !.pc = "returned"]
         ELSE [call EXCEPT
                 !.pc = "returned",
                 !.keys = IF call.enablePushProtectionFlag
                          THEN <<"e", "Enter">> ELSE <<"d", "Enter">>,
                 !.currentState = IF call.enablePushProtectionFlag
                                  THEN "Enabled" ELSE "Disabled"]
    /\ UNCHANGED restVars

ToggleNext ==
    \/ ToggleSearch
    \/ ToggleWait
    \/ ToggleApply

SpecToggle == ToggleInit /\ [][ToggleNext]_vars

\* the steps of togglePushProtectionConfig are taken when they can be
SpecToggleFair ==
    /\ ToggleInit
    /\ [][ToggleNext]_vars
    /\ WF_vars(ToggleSearch)
    /\ WF_vars(ToggleWait)
    /\ WF_vars(ToggleApply)

Next ==
    \/ Login
    \/ ValidateOnlyStart
    \/ ValidateOnlyFile
    \/ ValidateOnlyEnd
    \/ DelSettings
    \/ DelDiscover
    \/ DelConfirm
    \/ DelPattern
    \/ DelEnd
    \/ FindExisting
    \/ LoadFile
    \/ SkipPattern
    \/ BeginPattern
    \/ Fill
    \/ Test
    \/ DryRun
    \/ Confirm
    \/ Publish
    \/ Republish
    \/ PushProt
    \/ EndOfFile
    \/ Summary

Spec == Init /\ [][Next]_vars
(***************************************************************************)
(* Properties of uploadPatterns and processPattern, checked under Spec.    *)
(***************************************************************************)
HasStep(c, step) == \E i \in 1..Len(c.steps) : c.steps[i] = step
HasOp(c, op) == \E i \in 1..Len(c.ops) : c.ops[i] = op
HasPrompt(c, prompt) == \E i \in 1..Len(c.prompts) : c.prompts[i] = prompt

\* the page of the location the index holds
IndexedPage(location) ==
    IF location.kind = "path" THEN Server \o LocationString(location)
    ELSE LocationString(location)

\* processPattern has come to its end for the pattern of cur
Ended(c) == c.outcome \in {"done", "skipped", "failed", "load_failed"}

\* C5: a pattern whose name is a key of the index is opened at the indexed
\* location and filled in update mode, without a write of the name field;
\* any other pattern is opened at the new-pattern page and filled in create
\* mode: the name field is written and fillInPattern returns true.
C5_UpdateOrCreatePath ==
    /\ (cur.steps # <<>>) =>
          /\ cur.isExisting <=> (cur.location.kind # "none")
          /\ cur.target = IF cur.location.kind # "none"
                          THEN IndexedPage(cur.location) ELSE NewPatternUrl
    /\ (cur.fillOutcome # "none") =>
          IF cur.location.kind # "none"
          THEN /\ HasStep(cur, "fill_update")
               /\ ~HasOp(cur, OpFill("display_name"))
          ELSE /\ HasStep(cur, "fill_create")
               /\ cur.ops[1] = OpFill("display_name")
               /\ cur.needToSubmit

\* the catalog pattern and the remote pattern found on entry are identical
\* modulo whitespace, and the submission is not forced
IdenticalExisting ==
    /\ cur.isExisting
    /\ cur.found.exists
    /\ ~config.forceSubmission
    /\ RemoteEqualsDesired(cur.found.form, cur.regex)

\* C6 (as stated): for an existing remote pattern identical to the catalog
\* pattern, fillInPattern returns false and none of the test, dry-run or
\* publish steps is executed; in "keep" mode push protection is not toggled.
C6_NoStepsWhenIdentical ==
    (IdenticalExisting /\ cur.fillOutcome # "none") =>
        /\ ~cur.needToSubmit
        /\ ~HasStep(cur, "test")
        /\ ~HasStep(cur, "dry_run")
        /\ ~HasStep(cur, "publish")
        /\ config.noChangePushProtection =>
              (~HasStep(cur, "toggle_on") /\ ~HasStep(cur, "toggle_off")
               /\ ~HasStep(cur, "config_toggle_on"))

\* C6 (amended): for an existing remote pattern identical to the catalog
\* pattern, with forceSubmission false, fillInPattern returns false and
\* neither the test nor the dry run is executed; the pattern is published
\* exactly when its page is that of an unpublished pattern; in "keep" mode
\* push protection is not toggled.
C6_IdenticalPublishedOnlyIfUnpublished ==
    (IdenticalExisting /\ cur.outcome = "done") =>
        /\ ~cur.needToSubmit
        /\ cur.ops = <<>>
        /\ ~HasStep(cur, "test")
        /\ ~HasStep(cur, "dry_run")
        /\ HasStep(cur, "publish") <=> ~cur.found.published
        /\ config.noChangePushProtection =>
              (~HasStep(cur, "toggle_on") /\ ~HasStep(cur, "toggle_off")
               /\ ~HasStep(cur, "config_toggle_on"))

C6_Witness ==
    /\ IdenticalExisting
    /\ cur.outcome = "done"
    /\ cur.found.form.secret_format # cur.regex.pattern
    /\ cur.found.published
    /\ config.noChangePushProtection
    /\ cur.steps = <<"goto_existing", "fill_update", "title">>

\* a new pattern whose test data matched, whose dry run completed with no
\* hit under threshold 0, in a run where nothing failed
CleanNewPattern ==
    /\ Ended(cur)
    /\ ~cur.isExisting
    /\ cur.testData # Undefined
    /\ HasStep(cur, "test")
    /\ cur.completed
    /\ cur.hits = 0
    /\ config.dryRunThreshold = 0
    /\ run.faults = 0

C8_FailureIsolation ==
    /\ (cur.outcome = "failed") =>
          /\ Len(unprocessedPatterns) > 0
          /\ unprocessedPatterns[Len(unprocessedPatterns)].name = cur.name
          /\ unprocessedPatterns[Len(unprocessedPatterns)].file = cur.file
    /\ (run.pc = "done") => (tally.pending = 0 /\ run.fileIdx = run.numFiles + 1)
    /\ (run.pc = "exited") =>
          IsSessionLoss(unprocessedPatterns[Len(unprocessedPatterns)].message)
    /\ (run.pc = "aborted") => (run.fileIdx = 0)
    /\ (run.pc \in {"pattern", "fill", "test", "dryrun", "confirm", "publish",
                    "title", "push"}) =>
          (\A i \in 1..Len(unprocessedPatterns) :
              ~IsSessionLoss(unprocessedPatterns[i].message))

C8_Witness ==
    /\ run.pc = "pattern"
    /\ Len(unprocessedPatterns) = 1
    /\ unprocessedPatterns[1].file = 1
    /\ unprocessedPatterns[1].message = TestFailedMessage
    /\ cur.file = 2
    /\ cur.outcome = "done"
    /\ cur.published

\* C9: a run that lost its session during the processing of a pattern does
\* not go on to its end: it stops with exit code 1.
C9_SessionLossEndsRun ==
    run.sessionLost => (run.pc # "done")

\* C10: when the run ends, no selected pattern was left unpublished, and
\* not found unchanged, without an entry in the summary.
C10_SummaryEnumeratesLeft ==
    (run.pc = "done") => ~tally.unreported

\* processPattern is at work on a pattern, or has been for the file of run
InProcessPattern ==
    \/ run.pc \in {"fill", "test", "dryrun", "confirm", "publish", "title", "push"}
    \/ cur.outcome # "none"

\* C11: with validation on, no pattern of a file that fails validation
\* reaches processPattern: whenever processPattern has been entered for a
\* pattern of the file at hand, that file was read, holds a pattern, names
\* no pattern twice and is structurally sound.
C11_InvalidFileNeverProcessed ==
    (config.validate /\ (InProcessPattern \/ run.pc = "pattern")) =>
        /\ run.file.status = "ok"
        /\ run.file.sound
        /\ Len(run.file.names) > 0
        /\ ~HasDuplicates(run.file.names)

C11_Witness ==
    /\ config.validate
    /\ run.pc = "file"
    /\ run.fileIdx = 2
    /\ run.file.status = "ok"
    /\ HasDuplicates(run.file.names)
    /\ cur = CurIdle
    /\ tally.pending = 0
    /\ remote = RemoteIdle

\* the desired push-protection state by the precedence disable flag,
\* enable flag, push_protection of the pattern, answer to the prompt
DesiredByPrecedence(cfg, pushProtection, answer) ==
    IF cfg.disablePushProtection THEN "false"
    ELSE IF cfg.enablePushProtection THEN "true"
    ELSE IF pushProtection # "undefined" THEN pushProtection
    ELSE IF answer = "y" THEN "true" ELSE "false"

TouchesPushProtection(c) ==
    \/ HasPrompt(c, "push_protection")
    \/ HasStep(c, "toggle_on") \/ HasStep(c, "toggle_off")
    \/ HasStep(c, "config_toggle_on")

\* C12: under the keep flag the push-protection step is skipped: no prompt,
\* no toggle, no visit of the configuration table.  Otherwise the desired
\* state follows the precedence disable, enable, push_protection of the
\* pattern, prompt; the prompt is issued exactly when none of the three
\* flags is set and the pattern leaves push_protection undefined.
C12_PushProtectionPrecedence ==
    (cur.desired # "none") =>
        IF config.noChangePushProtection
        THEN /\ cur.desired = "skipped"
             /\ ~TouchesPushProtection(cur)
             /\ cur.pushAfter = cur.pushBefore
        ELSE /\ cur.desired =
                   DesiredByPrecedence(config, cur.pushProtection, cur.answer)
             /\ HasPrompt(cur, "push_protection") <=>
                   /\ ~config.disablePushProtection
                   /\ ~config.enablePushProtection
                   /\ cur.pushProtection = "undefined"
             /\ HasPrompt(cur, "push_protection") <=> (cur.answer # "none")

C12_Witness ==
    /\ cur.outcome = "done"
    /\ cur.desired = "true"
    /\ cur.answer = "y"
    /\ ~config.enablePushProtection
    /\ cur.pushProtection = "undefined"
    /\ HasStep(cur, "toggle_on")

\* C13: with the disable flag set, push protection of a pattern that
\* processPattern has processed to its end is off, at every scope.
C13_DisableFlagDisables ==
    (config.disablePushProtection /\ cur.outcome = "done") => ~cur.pushAfter

(***************************************************************************)
(* deleteExistingPatterns                                                  *)
(***************************************************************************)
\* the discovery of deleteExistingPatterns has given its listing
DiscoveryDone ==
    /\ del.pc \notin {"off", "start", "discover"}
    /\ del.result \notin {"load_failed", "find_failed"}

DeleteCalls(d) ==
    {i \in 1..Len(d.calls) : d.calls[i][1] \in {"open", "dialog", "confirm_delete"}}

\* C14: when the filters leave none of the discovered patterns (or none
\* was discovered), deleteExistingPatterns has returned without a
\* confirmation prompt and without a call to the remote after the discovery
\* that gave the set: no pattern page opened, no dialog, no delete.
C14_EmptySetNoPromptNoCall ==
    (DiscoveryDone
     /\ \A i \in 1..Len(del.listing) : ~IsSelectedForDelete(config, del.listing[i]))
    =>
        /\ del.pc = "returned"
        /\ del.result \in {"none_found", "none_selected"}
        /\ del.prompts = <<>>
        /\ del.answer = "none"
        /\ del.calls = << <<"goto_settings">>, <<"find_existing">> >>
        /\ del.opened = <<>>
        /\ del.deleted = <<>>

C14_Witness ==
    /\ del.result = "none_selected"
    /\ Len(del.listing) = 2
    /\ del.prompts = <<>>
    /\ del.calls = << <<"goto_settings">>, <<"find_existing">> >>
    /\ \A n \in Names : remote[n].exists

\* C15: with a non-empty filtered set there is exactly one confirmation
\* prompt for the batch, default false, asked before any pattern page is
\* opened; after an answer other than yes no pattern page is opened and no
\* delete is confirmed; a delete is confirmed only after a yes and only for
\* a pattern of the filtered set.
C15_OnePromptGuardsDeletes ==
    /\ Len(del.prompts) <= 1
    /\ (Len(del.queue) > 0 /\ del.pc \in {"loop", "returned"}) =>
            del.prompts = <<[default |-> FALSE]>>
    /\ del.pc = "confirm" => (del.prompts = <<>> /\ DeleteCalls(del) = {})
    /\ del.answer # "y" =>
            (del.opened = <<>> /\ del.deleted = <<>> /\ DeleteCalls(del) = {})
    /\ \A i \in 1..Len(del.deleted) :
            /\ del.answer = "y"
            /\ \E j \in 1..Len(del.queue) : del.queue[j] = del.deleted[i]
            /\ \E j \in 1..Len(del.listing) : del.listing[j] = del.deleted[i]
            /\ IsSelectedForDelete(config, del.deleted[i])

C15_Witness ==
    /\ del.result = "done"
    /\ del.answer = "y"
    /\ del.prompts = <<[default |-> FALSE]>>
    /\ Len(del.listing) = 2
    /\ del.deleted = <<"n2">>
    /\ ~remote["n2"].exists
    /\ remote["n1"].exists
    /\ ~IsSelectedForDelete(config, "n1")

\* C16: the batch deletion is given up before the end of its loop only
\* when the session is lost; any other failure on one pattern leaves the
\* loop going on with the next pattern.
C16_AbortOnlyOnSessionLoss ==
    (del.pc = "returned" /\ del.result = "aborted") => del.failure = "closed"

(***************************************************************************)
(* performDryRun: the repository selection                                 *)
(***************************************************************************)
\* C17: at organization scope with the list "o/a", "b" and not all
\* repositories, the dialog is in specific-repositories mode, the searches
\* are "a" then "b", an option is selected only when its label is the
\* searched name, and when no repository is selected performDryRun ends
\* with the null result and the confirm button not clicked.
C17_NothingSelectedNullResult ==
    (/\ dry.scope = "org"
     /\ ~dry.allRepos
     /\ dry.list = <<<<"o", Slash, "a">>, <<"b">>>>
     /\ dry.pc = "ended")
    =>
        /\ dry.mode = "specific"
        /\ dry.searches = <<<<"a">>, <<"b">>>>
        /\ \A i \in 1..Len(dry.selected) :
              Trim(dry.selected[i].label) = dry.selected[i].repo
        /\ Len(dry.selected) = 0 =>
              (dry.result = "null_result" /\ ~dry.confirmClicked)

(***************************************************************************)
(* processPattern under --force-submission                                 *)
(***************************************************************************)
\* C18: with forceSubmission set a failing test does not stop
\* processPattern: no pattern of the run is recorded as failed with the
\* message of a failed test.
C18_ForceSubmissionOverridesTest ==
    config.forceSubmission =>
        \A i \in 1..Len(unprocessedPatterns) :
            unprocessedPatterns[i].message # TestFailedMessage

(***************************************************************************)
(* main in validate-only mode                                              *)
(***************************************************************************)
\* the file was read and passes validation
FilePasses(file) ==
    /\ file.status = "ok"
    /\ file.sound
    /\ Len(file.names) > 0
    /\ ~HasDuplicates(file.names)

\* C19: in validate-only mode there is no login, no browser and nothing
\* asked of the remote; the files before the one at hand have passed; the
\* exit code is 0 only when every listed file has passed, and it is 1 with
\* no file listed or at the first file that fails, the later files unread.
C19_ValidateOnlyExit ==
    config.validateOnly =>
        /\ ~proc.loggedIn /\ ~proc.browser
        /\ remote = RemoteIdle /\ existingPatterns = IndexEmpty
        /\ del = DelIdle /\ cur = CurIdle /\ run.pc = "start"
        /\ unprocessedPatterns = <<>>
        /\ (proc.pc = "validating" /\ run.fileIdx > 1) => FilePasses(run.file)
        /\ proc.pc = "exited" =>
              /\ proc.exitCode \in {0, 1}
              /\ proc.exitCode = 0 <=>
                    (run.numFiles > 0 /\ run.fileIdx > run.numFiles
                     /\ FilePasses(run.file))
              /\ proc.exitCode = 1 <=>
                    \/ run.numFiles = 0
                    \/ (run.fileIdx <= run.numFiles /\ ~FilePasses(run.file))

C19_Witness ==
    /\ config.validateOnly
    /\ proc.pc = "exited"
    /\ proc.exitCode = 1
    /\ run.numFiles = 2
    /\ run.fileIdx = 2
    /\ HasDuplicates(run.file.names)
    /\ ~proc.loggedIn

(***************************************************************************)
(* Name filtering                                                          *)
(***************************************************************************)
\* the rule of selection: in the include list if there is one, and not in
\* the exclude list if there is one
SelectedByRule(cfg, name) ==
    /\ (~cfg.patternsToInclude.defined \/ name \in cfg.patternsToInclude.names)
    /\ ~(cfg.patternsToExclude.defined /\ name \in cfg.patternsToExclude.names)

\* s is t without some of its elements, the order kept
RECURSIVE IsSubsequence(_, _)
IsSubsequence(s, t) ==
    IF s = <<>> THEN TRUE
    ELSE IF t = <<>> THEN FALSE
    ELSE IF Head(s) = Head(t) THEN IsSubsequence(Tail(s), Tail(t))
    ELSE IsSubsequence(s, Tail(t))

\* C20: uploadPatterns hands a pattern to processPattern only if the rule
\* selects its name, in the order of the file, and at the end of a file
\* every pattern before the position of the loop was selected and handed
\* over or not selected; deleteExistingPatterns keeps exactly the discovered
\* names the same rule selects, in the order of the listing, and deletes
\* only those, in that order.
C20_SameSelectionRule ==
    /\ cur.name # "none" =>
          /\ SelectedByRule(config, cur.name)
          /\ cur.outcome = "none" =>
                (run.patIdx <= Len(run.file.names)
                 /\ cur.name = run.file.names[run.patIdx])
    /\ run.pc = "done" => tally.pending = 0
    /\ \A n \in Names : IsSelected(config, n) <=> SelectedByRule(config, n)
    /\ del.queue = SelectSeq(del.listing, LAMBDA n : SelectedByRule(config, n))
    /\ IsSubsequence(del.deleted, del.queue)
    /\ \A i \in 1..Len(del.deleted) : SelectedByRule(config, del.deleted[i])

C20_Witness ==
    /\ config.patternsToExclude.defined
    /\ run.file.names = <<"n2", "n1">>
    /\ run.patIdx = 3
    /\ cur.name = "n1"
    /\ cur.outcome = "done"
    /\ cur.published
    /\ tally.pending = 0

(***************************************************************************)
(* PatternValidator.validatePatternFile                                    *)
(***************************************************************************)
\* validatePatternFile has returned
Validated == call.fn = "validatePatternFile" /\ call.pc = "returned"

\* the positions of the patterns of the file the name lists select
SelectedPositions(c) ==
    {i \in 1..Len(c.file.patterns) :
        SelectedByRule(c.config, c.file.patterns[i].name)}

\* C21: a file with a name and with patterns, whose selected patterns are
\* all without error and of different names, is reported valid, whatever
\* the patterns the include / exclude lists leave out are like.
C21_FilteredOutPatternsIgnored ==
    (/\ Validated
     /\ call.file.name # ""
     /\ Len(call.file.patterns) > 0
     /\ \A i \in SelectedPositions(call) :
           /\ PatternErrors(call.file.patterns[i]) = <<>>
           /\ \A j \in SelectedPositions(call) :
                 j # i => call.file.patterns[j].name # call.file.patterns[i].name)
    => call.result.isValid

\* C22: with validation on, no name is handed to processPattern twice in
\* one run, whether the run has one pattern file or several.
C22_NoNameTwiceInRun ==
    config.validate => ~tally.twice

(***************************************************************************)
(* comparePatterns                                                         *)
(***************************************************************************)
\* C23: comparePatterns(a, b) is true exactly when a and b are both
\* strings (neither null nor undefined) that are equal once the whitespace
\* at their ends is cut; it gives the same for (b, a).
C23_ComparePatternsTrimmedEquality ==
    (call.fn = "comparePatterns" /\ call.pc = "returned") =>
        /\ call.result <=>
              (/\ call.patternA \notin {Null, Undefined}
               /\ call.patternB \notin {Null, Undefined}
               /\ Trim(call.patternA) = Trim(call.patternB))
        /\ (call.patternA \in {Null, Undefined} \/ call.patternB \in {Null, Undefined})
              => ~call.result
        /\ call.result = call.swapped

C23_Witness ==
    /\ call.fn = "comparePatterns"
    /\ call.pc = "returned"
    /\ call.result
    /\ call.patternA = <<Space, "a">>
    /\ call.patternB = <<"a", Space>>

(***************************************************************************)
(* processPattern: publication after the dry run                           *)
(***************************************************************************)
\* C24: for a pattern that needs submission the publish control is clicked
\* only after a dry run of this attempt that returned completed = true.
C24_PublishOnlyAfterCompletedDryRun ==
    (cur.needToSubmit /\ HasStep(cur, "publish")) =>
        (HasStep(cur, "dry_run") /\ cur.completed)

(***************************************************************************)
(* performDryRun: the poll and the result                                  *)
(***************************************************************************)
PollReturned == call.fn = "performDryRun" /\ call.returned

InPollLoop == call.fn = "performDryRun" /\ call.pc \in {"poll", "reload"}

\* C25: when the status read is a terminal text other than "Completed",
\* performDryRun extracts no results and returns completed = false.
C25_FailedStatusAborts ==
    (PollReturned /\ call.lastRead \notin {"none", "error", "Queued", "In progress", "Completed"})
        => (~call.result.completed /\ ~call.extracted)

\* C26: a result with completed = true is returned only after the poll has
\* read a terminal status; a result with completed = false has an empty
\* id, no hits and no results.
C26_ResultShape ==
    PollReturned =>
        /\ call.result.completed =>
              (call.terminalRead /\ call.lastRead \in TerminalStatuses)
        /\ ~call.result.completed =>
              (call.result.id = "" /\ call.result.hits = 0
               /\ call.result.results = 0)
        /\ (call.result.hits > 0 \/ call.result.results > 0) =>
              call.result.completed

C26_Witness ==
    /\ PollReturned
    /\ call.result.completed
    /\ call.lastRead = "Completed"
    /\ call.attempts >= 2
    /\ call.result.hits = 2
    /\ call.result.results = 2

\* C27: completed = true with hits = 0 is returned only when the status
\* read was "Completed" and the count of the page was read and is 0.
C27_ZeroHitsOnlyWhenCounted ==
    (PollReturned /\ call.result.completed /\ call.result.hits = 0) =>
        /\ call.lastRead = "Completed"
        /\ call.container
        /\ call.countText = "0"

\* C28: the poll loop is left only by the read of a status that is neither
\* "In progress" nor "Queued", or by a reload that fails, however many
\* attempts were made; and once the remote shows a terminal status while
\* performDryRun is in the loop, the loop is left.
C28_PollLeavesOnlyOnTerminalOrReload ==
    /\ [](((call.fn = "performDryRun") /\ call.pc \in {"results", "returned"}
            /\ call.lastRead # "none")
           => (call.reloadFailed \/ call.lastRead \in TerminalStatuses))
    /\ [](InPollLoop => call.lastRead \notin TerminalStatuses)
    /\ ((InPollLoop /\ call.remoteStatus \in TerminalStatuses) ~> ~InPollLoop)

C28_Witness ==
    /\ InPollLoop
    /\ call.pc = "poll"
    /\ call.attempts = MaxAttempts
    /\ call.remoteStatus = "In progress"
    /\ call.lastRead = "In progress"
    /\ ~call.reloadFailed

(***************************************************************************)
(* testPattern: the polling loop                                           *)
(***************************************************************************)
\* C29: the polling loop of testPattern reads the status at most
\* maxTestTries times.
C29_AtMostMaxTestTriesReads ==
    call.fn = "testPattern" => call.reads <= call.maxTestTries

(***************************************************************************)
(* togglePushProtectionConfig                                              *)
(***************************************************************************)
\* C30: when the row of the pattern is not in the configuration table,
\* togglePushProtectionConfig comes to an end.
C30_RowNeverFoundReturns ==
    (call.fn = "togglePushProtectionConfig" /\ ~call.rowExists)
        ~> (call.pc \in {"returned", "threw"})


(***************************************************************************)
(* The index of the run, the form of its locations, and what a failed fill *)
(* or a declined gate leave behind.                                        *)
(***************************************************************************)

\* the step hands a pattern to processPattern
EntersProcessPattern == run.pc = "pattern" /\ cur'.name # "none"

\* C31: the index is built once, before any pattern is processed; a publish
\* after the gate leaves the name of the pattern in it, no entry is ever
\* removed, and a pattern whose name the index holds is handled as an
\* existing one (the page of the pattern is opened, not the new-pattern page)
C31_IndexUpdatedInPlace ==
    /\ [](cur.name # "none" => run.pc # "start")
    /\ [][(existingPatterns' # existingPatterns)
             => (run.pc \in {"start", "publish"})]_vars
    /\ [][(run.pc = "publish" /\ cur'.published)
             => (existingPatterns'[cur.name] # NoLocation)]_vars
    /\ [][\A n \in Names :
             (run.pc # "start" /\ existingPatterns[n] # NoLocation)
                => (existingPatterns'[n] # NoLocation)]_vars
    /\ [][(EntersProcessPattern /\ existingPatterns[cur'.name] # NoLocation)
             => (cur'.isExisting /\ ~HasStep(cur', "goto_new"))]_vars

\* a pattern with the name of one published earlier in the run is on the
\* update branch
C31_Witness ==
    /\ cur.outcome # "none"
    /\ cur.isExisting
    /\ cur.location = UrlLocation(cur.name)
    /\ HasStep(cur, "goto_existing")

\* C32: every location the index holds is a server-relative path, and the
\* address processPattern builds from it (config.server followed by the
\* location) is the address of the page of the pattern of that name
C32_IndexLocationsAreServerRelative ==
    \A n \in Names :
        (existingPatterns[n] # NoLocation)
            => /\ existingPatterns[n] = PathLocation(n)
               /\ LocationString(existingPatterns[n]) = PathOf(n)
               /\ TargetUrl(existingPatterns[n]) = PatternPageUrl(n)
               /\ IsPage(TargetUrl(existingPatterns[n]))

\* C33: a pattern for which fillInPattern failed to add a rule is not
\* published, and processPattern does not go on with it as with a pattern
\* that needs no change (title check, push protection, normal end)
C33_FillFailureNotPublished ==
    (cur.fillOutcome = "add_failed")
        => /\ ~HasStep(cur, "publish")
           /\ ~cur.published
           /\ ~HasStep(cur, "title")
           /\ cur.outcome # "done"

\* the steps that change push protection
TogglesPushProtection(c) ==
    \/ HasStep(c, "toggle_on")
    \/ HasStep(c, "toggle_off")
    \/ HasStep(c, "config_toggle_on")

\* C34: after the gate has returned false for a pattern, there is no
\* publish click, the index entry of its name is as it was when the pattern
\* was entered, no push-protection prompt is issued and no push-protection
\* change is made, and processPattern has returned without an error: the
\* loop of uploadPatterns is at the next pattern of the file
C34_DeclinedGateLeavesNoTrace ==
    (cur.shouldProceed = "false")
        => /\ ~HasStep(cur, "publish")
           /\ ~cur.published
           /\ existingPatterns[cur.name] = cur.location
           /\ ~HasPrompt(cur, "push_protection")
           /\ ~TogglesPushProtection(cur)
           /\ cur.desired = "none"
           /\ cur.outcome = "skipped"
           /\ run.pc = "pattern"
           /\ run.exitCode = 0

\* the user declined at the prompt of the gate and the file has a next
\* pattern
C34_Witness ==
    /\ cur.shouldProceed = "false"
    /\ HasPrompt(cur, "proceed")
    /\ cur.hits > config.dryRunThreshold
    /\ cur.outcome = "skipped"
    /\ run.patIdx <= Len(run.file.names)

\* the rows of the listing that carry the name, with a name and an href
RowsNamed(listing, n) ==
    {i \in 1..Len(listing) : listing[i].name = n /\ listing[i].href # ""}

\* the href of the last row of the listing that carries the name
LastDiscovered(listing, n) ==
    IF RowsNamed(listing, n) = {} THEN "none"
    ELSE listing[CHOOSE i \in RowsNamed(listing, n) :
                    \A j \in RowsNamed(listing, n) : j <= i].href

FindReturned ==
    call.fn = "findExistingPatterns" /\ call.pc \in {"returned", "done"}

\* C35: findExistingPatterns returns null when the navigation fails, and
\* null only after a failed navigation or an error; it returns the empty map
\* for a remote without patterns, without reading the rows when the list
\* shows the "no custom patterns" text; otherwise the map holds for every
\* name the location of the last row of that name; and uploadPatterns hands
\* no pattern to processPattern when the result is null
C35_FindExistingPatternsResult ==
    FindReturned
        => /\ (call.navigated = "failed") => (call.result = "null")
           /\ (call.result = "null") <=> (call.navigated \in {"failed", "closed"})
           /\ (call.result = "map" /\ call.listing = <<>>)
                 => (call.existingPatterns = EmptyMap)
           /\ (call.result = "map" /\ call.message) => ~call.walked
           /\ (call.result = "map")
                 => \A n \in Names :
                       call.existingPatterns[n]
                          = LastDiscovered(call.listing, n)
           /\ (call.result = "null") => (call.handed = <<>>)
           /\ (call.pc = "done" /\ call.result = "map")
                 => (Len(call.handed) = Len(call.catalog))

\* a listing of two pages with the name n1 on both, at different
\* locations: the map holds the second one
C35_Witness ==
    /\ FindReturned
    /\ call.result = "map"
    /\ Len(call.listing) > PageSize
    /\ call.listing[1].name = "n1"
    /\ call.listing[1].href = "/1"
    /\ call.listing[Len(call.listing)].name = "n1"
    /\ call.existingPatterns["n1"] = "/2"

\* C36: every call of togglePushProtection clicks at most once, and clicks
\* exactly when the state read from the label is not the wanted one; it
\* does not click for a pattern already in the wanted state, it leaves the
\* pattern in the wanted state, and a call that repeats the wish of the
\* call before it does not click
C36_RepoToggleIdempotent ==
    (call.fn = "togglePushProtection")
        => \A i \in 1..Len(call.calls) :
              LET c == call.calls[i]
              IN  /\ c.clicks \in {0, 1}
                  /\ (c.clicks = 1) <=> (c.isEnabled # c.enable)
                  /\ c.isEnabled = c.before
                  /\ (c.before = c.enable) => (c.clicks = 0)
                  /\ c.after = c.enable
                  /\ (i > 1 /\ call.calls[i - 1].enable = c.enable)
                        => (c.clicks = 0)

\* push protection is enabled by one call with a click and a second call
\* with the same wish, reading a padded label, does not click
C36_Witness ==
    /\ call.fn = "togglePushProtection"
    /\ Len(call.calls) >= 2
    /\ call.calls[1].enable
    /\ call.calls[1].clicks = 1
    /\ call.calls[2].enable
    /\ call.calls[2].label = Pad(<<"Disable">>)
    /\ call.calls[2].clicks = 0

\* the catalog supplies no test data: absent, or nothing but whitespace
NoTestData(testData) == testData = Undefined \/ Trim(testData) = EmptyStr

\* C37: for a pattern without test data testPattern fills a single space
\* into the test box and returns true whatever the page shows, so that
\* processPattern goes on to the dry run
C37_NoTestDataNeverFails ==
    (call.fn = "testPattern" /\ call.pc = "returned"
        /\ NoTestData(call.testData))
        => /\ call.submitted = <<Space>>
           /\ call.result

\* the phases of processPattern after the page of the pattern has loaded
InFlight ==
    run.pc \in {"fill", "test", "dryrun", "confirm", "publish", "title", "push"}

\* the place of the loops of uploadPatterns in the application order: file
\* by file, and within a file pattern by pattern
LoopRank(r) ==
    r.fileIdx * (MaxPatterns + 2)
        + (IF r.pc \in {"file", "start", "idle"} THEN 0 ELSE r.patIdx)

\* the step issues a remote operation for a pattern of the upload
IssuesOperation ==
    /\ run.pc \notin {"start", "idle"}
    /\ \/ cur'.steps # cur.steps /\ cur'.steps # <<>>
       \/ remote' # remote
       \/ existingPatterns' # existingPatterns

\* C38: at no time are two patterns in processing; every remote operation
\* of the upload is issued for the pattern at which the loops of
\* uploadPatterns stand, and the loops only move forward in application
\* order, so that the operations of a pattern all come before the first
\* operation of any later pattern
C38_StrictlySequential ==
    /\ [](tally.open <= 1)
    /\ [](InFlight => /\ tally.open = 1
                      /\ cur.file = run.fileIdx
                      /\ cur.idx = run.patIdx)
    /\ [](~InFlight => tally.open = 0)
    /\ [][IssuesOperation
             => /\ cur'.file = run.fileIdx
                /\ cur'.idx = run.patIdx
                /\ cur'.name = run.file.names[run.patIdx]]_vars
    /\ [][LoopRank(run') >= LoopRank(run)]_vars
    /\ [][(InFlight /\ cur'.name # "none")
             => (<<cur'.file, cur'.idx>> = <<cur.file, cur.idx>>)]_vars

\* the second pattern of the second file is in processing after a pattern
\* of the first file was published
C38_Witness ==
    /\ InFlight
    /\ run.fileIdx = 2
    /\ cur.idx = 2
    /\ HasStep(cur, "dry_run")
    /\ \E n \in Names : existingPatterns[n] = UrlLocation(n)

\* C39: once the step on a pattern is through, no page opened for the
\* look at a single pattern is left open, in deleteExistingPatterns as in
\* processPattern
C39_SubLookupPagesClosed ==
    /\ del.pages = 0
    /\ ~InFlight => tally.open = 0

\* the attempt failed with an aborted request
IsAbortedAttempt(attempt) ==
    attempt.kind = "error" /\ \E m \in NavMethods : attempt.message = AbortedMessage(m)

\* C40: in goto and reload an attempt that fails with an aborted request is
\* followed by another attempt, however many went before; any other error,
\* a missing response and a response that is not OK end the call with
\* false at once; the call returns true only after an OK response
C40_NavigationRetry ==
    (call.fn \in NavMethods /\ call.last.kind # "none")
        => /\ IsAbortedAttempt(call.last)
                 => (call.pc = "attempt" /\ call.result = "none"
                        /\ ENABLED GotoAttempt)
           /\ ~IsAbortedAttempt(call.last) => (call.pc = "returned")
           /\ (call.last.kind = "error" /\ ~IsAbortedAttempt(call.last))
                 => (call.result = "false")
           /\ (call.last.kind = "null") => (call.result = "false")
           /\ (call.last.kind = "response" /\ call.last.status # 200)
                 => (call.result = "false")
           /\ (call.result = "true")
                 <=> (call.last.kind = "response" /\ call.last.status = 200)

\* reload is still at it after MaxAborts aborted attempts
C40_Witness ==
    /\ call.fn = "reload"
    /\ call.pc = "attempt"
    /\ call.aborts = MaxAborts
    /\ IsAbortedAttempt(call.last)

====
